---- MODULE Spec2Model ----
(***************************************************************************)
(* A model of the GitHubCodeChat gateway: the repository / message store   *)
(* (server storage + routes + shared schema), the ingestion state machine  *)
(* of the compute service, the reverse proxy middleware pipeline of        *)
(* server/index.ts and the chat turn of the client.                        *)
(*                                                                         *)
(* The module holds several specifications over one set of variables:      *)
(*   Spec         repository records: POST /api/repositories and the       *)
(*                ingestion state machine (begin/complete/fail processing, *)
(*                embedding) writing through DatabaseStorage               *)
(*   SpecMessages the messages table: createMessage / getMessages          *)
(*   SpecGateway  one request through the middleware pipeline of each      *)
(*                server/index.ts configuration                            *)
(*   SpecChat     one chat turn: the retrieval assembler                   *)
(* A specification leaves the variables of the other parts unchanged.      *)
(***************************************************************************)
EXTENDS Integers, Sequences, FiniteSets, TLC

\* ------------------------------------------------------------------------
\* Bounds of the model
\* ------------------------------------------------------------------------
MaxRepos == 2
NumCallers == 2
MaxMessages == 3
MaxTime == 2

\* ------------------------------------------------------------------------
\* Values
\* ------------------------------------------------------------------------
\* SQL NULL
Null == "NULL"

\* status ∈ {pending, processing, completed, error} of the data model
Statuses == {"pending", "processing", "completed", "error"}

Callers == 1..NumCallers

VARIABLES
  repositories,  \* the repositories table: the row of each id (primary key)
  token,         \* per repository id: the caller holding its mutual-exclusion token, 0 = free
  pc,            \* per caller: idle, between the read and the write of beginProcessing, or done
  target,        \* per caller: the repository id of its call
  seen,          \* per caller: the status its call read
  result,        \* per caller: the result of its finished call ("none" while it has none)
  attempts,      \* per repository id: processing attempts begun and not yet ended
  fresh,         \* per repository id: the row was created pending and no attempt on it has ended
  lastOp,        \* the operation of the last step and its result
  messages,      \* the messages table, rows in the order they were inserted
  messageSeq,    \* the last value drawn from the messages id sequence
  referenceSeq,  \* the last value drawn from the messages repository_id sequence
  clock,         \* the database clock (now())
  fetched,       \* the list the last getMessages returned
  config,        \* which server/index.ts wiring the gateway runs
  request,       \* the request in the gateway: method, path, contentType, body (bytes)
  step,          \* the position of the request in the middleware pipeline, 0 = not in it
  drained,       \* the body stream of the request has been read to its end
  reqBody,       \* req.body: the parsed body, or Undefined
  outgoing,      \* the request the proxy sent to the compute service
  phase,         \* the proxied call: none, sent, responded, refused, silent
  response,      \* the response the client got
  logged,        \* what the gateway has written to its log for the request in it
  chat,          \* the chat turn: its repository_ids and what the assembler made of it
  maxContext,    \* the configured maximum total context size
  compute,       \* the compute process: starting, running, failed (never started) or exited
  exitCode,      \* the exit code of the compute process, -1 while it has none
  spawns,        \* how many times the gateway has spawned the compute process
  exitLog,       \* the exit codes the supervisor has logged
  listening,     \* the gateway's server listens on its port
  watcher,       \* which ProcessingStatus component the page shows
  polled,        \* the repository list the component fetched last
  timer,         \* the component's refetch timer is set
  db,            \* the database connection of the gateway: up or down
  repositorySeq, \* the last value drawn from the repositories id sequence
  drizzleZod,    \* the drizzle-zod the gateway is built with, as far as its parses
                 \* have told: "0.5", "0.6", or "any" while none has told them apart
  ui,            \* ChatInterface state: messages, input, isLoading
  inflight,      \* the /chat/message requests sent and not yet answered
  dev,           \* import.meta.env.DEV
  session,       \* the identity provider's current user (auth.currentUser)
  user,          \* AuthProvider state: user
  loading,       \* AuthProvider state: loading
  location,      \* the path the router shows
  signIn,        \* the position of handleSignIn or handleSignOut
  notices,       \* auth state changes not yet delivered to onAuthStateChanged
  effects        \* the useEffect hooks that are due: none, those of the route component
                 \* just mounted ("mount"), or all (user or loading changed: "state")

ingestVars == <<token, pc, target, seen, result, attempts, fresh>>
messageVars == <<messages, messageSeq, referenceSeq, clock, fetched>>
gatewayVars == <<config, request, step, drained, reqBody, outgoing, phase, response, logged>>
chatVars == <<chat, maxContext>>
supervisorVars == <<compute, exitCode, spawns, exitLog, listening>>
pollVars == <<watcher, polled, timer>>
storeVars == <<db, repositorySeq, drizzleZod>>
clientVars == <<ui, inflight>>
authVars == <<dev, session, user, loading, location, signIn, notices, effects>>

vars == <<repositories, lastOp, ingestVars, messageVars, gatewayVars, chatVars, supervisorVars, pollVars,
          storeVars, clientVars, authVars>>

\* What the operations on the repository records leave alone
outsideIngestion ==
  <<messageVars, gatewayVars, chatVars, supervisorVars, pollVars, storeVars, clientVars, authVars>>

\* ------------------------------------------------------------------------
\* shared/schema.ts: the repositories table and insertRepositorySchema
\* ------------------------------------------------------------------------
\* The columns of the repositories table with their defaults (description,
\* processed_at and error_message are nullable and default to NULL; url,
\* name, owner and files are not null and have no default: every insert
\* gives them).  The id is the key of the row.  embeddings is what the
\* compute service stores with the row.
RepositoryDefaults ==
  [url |-> Null, name |-> Null, owner |-> Null, description |-> Null, files |-> <<>>,
   status |-> "pending", branch |-> "main", path |-> "", processedAt |-> Null,
   vectorized |-> FALSE, errorMessage |-> Null, embeddings |-> <<>>]

\* A value of a JSON request body, with its type as the schema sees it
Str(s) == [typeof |-> "string", value |-> s]
Num(n) == [typeof |-> "number", value |-> n]
Bool(b) == [typeof |-> "boolean", value |-> b]
JsonNull == [typeof |-> "null", value |-> Null]

\* The keys insertRepositorySchema keeps of a request body: every column of
\* the table, id and processedAt too (createInsertSchema without pick or
\* omit; z.object strips the other keys).
InsertKeys ==
  {"id", "url", "name", "owner", "description", "files", "status", "branch", "path",
   "processedAt", "vectorized", "errorMessage"}

\* The source pins no drizzle-zod. createInsertSchema(table, refine) of
\* drizzle-zod up to 0.5 lays the refinements over the columns and then makes
\* a column with a default optional and a nullable column nullable and
\* optional; from 0.6 on a refinement takes the place of the column's schema,
\* optionality included.
Versions == {"0.5", "0.6"}

\* The builds a parse can still turn out to be of
Builds(known) == IF known = "any" THEN Versions ELSE {known}

\* The builds to tell apart for a parse: where both answer the parsed value
\* alike, one stands for both
BuildsFor(known, differ) ==
  IF differ THEN Builds(known) ELSE {CHOOSE v \in Builds(known) : TRUE}

\* What is known of the build after a parse under v: v when the two builds
\* answer the parsed value differently
Learnt(known, differ, v) == IF differ THEN v ELSE known

\* The keys an insert must give. 0.5: the columns that are not null and have
\* no default; 0.6: those, and status, branch and path, refined to z.string().
RequiredKeys(v) ==
  IF v = "0.5" THEN {"url", "name", "owner", "files"}
  ELSE {"url", "name", "owner", "files", "status", "branch", "path"}

\* The keys null is accepted for. 0.5: the nullable columns; 0.6: those that
\* are not refined (description is z.string().optional()).
NullableKeys(v) ==
  IF v = "0.5" THEN {"description", "processedAt", "errorMessage"}
  ELSE {"processedAt", "errorMessage"}

\* The type the schema wants of each scalar key (processedAt: z.date(), which
\* no JSON value is)
KeyType ==
  [id |-> "number", url |-> "string", name |-> "string", owner |-> "string",
   description |-> "string", status |-> "string", branch |-> "string", path |-> "string",
   processedAt |-> "date", vectorized |-> "boolean", errorMessage |-> "string"]

\* files: z.array(z.object({name: z.string(), content: z.string()}))
FilesWellFormed(files) ==
  \A i \in DOMAIN files :
    /\ {"name", "content"} \subseteq DOMAIN files[i]
    /\ files[i].name.typeof = "string"
    /\ files[i].content.typeof = "string"

\* insertRepositorySchema.parse succeeds: the required keys are there, and
\* every column key the body carries holds a value of the column's type, or
\* null where the column is nullable.
insertRepositorySchema(body, v) ==
  /\ RequiredKeys(v) \subseteq DOMAIN body
  /\ FilesWellFormed(body.files)
  /\ \A f \in (DOMAIN body \cap InsertKeys) \ {"files"} :
       \/ body[f].typeof = KeyType[f]
       \/ f \in NullableKeys(v) /\ body[f].typeof = "null"

\* The two builds answer the body differently
RepositoryBuildsDiffer(body) ==
  insertRepositorySchema(body, "0.5") # insertRepositorySchema(body, "0.6")

\* The data parse returns of a key of the body
ParsedValue(body, f) ==
  IF f = "files"
  THEN [i \in DOMAIN body.files |->
          [name |-> body.files[i].name.value, content |-> body.files[i].content.value]]
  ELSE body[f].value

\* db.insert(repositories).values(repo): a key the body leaves out takes the
\* column default.
InsertedRow(body) ==
  [f \in DOMAIN RepositoryDefaults |->
     IF f \in InsertKeys /\ f \in DOMAIN body THEN ParsedValue(body, f)
     ELSE RepositoryDefaults[f]]

\* The id of the inserted row: the one the data carries, or else the next
\* value of the serial.
InsertedId(body, seq) == IF "id" \in DOMAIN body THEN body.id.value ELSE seq + 1

\* ------------------------------------------------------------------------
\* DatabaseStorage (server/storage.ts)
\* ------------------------------------------------------------------------
\* createRepository: insert ... returning; the row is stored under its id.
createRepository(repos, body, id) ==
  IF DOMAIN repos = 1..(id - 1)
  THEN Append(repos, InsertedRow(body))
  ELSE [i \in DOMAIN repos \cup {id} |-> IF i = id THEN InsertedRow(body) ELSE repos[i]]

\* updateRepository: update ... set(updates) where id = ...; a row of another
\* id is left alone, an id without a row updates nothing.
updateRepository(repos, id, updates) ==
  [i \in DOMAIN repos |->
     IF i = id
     THEN [f \in DOMAIN repos[i] |->
             IF f \in DOMAIN updates THEN updates[f] ELSE repos[i][f]]
     ELSE repos[i]]

\* getRepository: the row of the id, or undefined
HasRepository(repos, id) == id \in DOMAIN repos

\* ------------------------------------------------------------------------
\* Inputs
\* ------------------------------------------------------------------------
RepoIds == 1..MaxRepos

WellFormedUrl == "https://github.com/o/r"
MalformedUrl == "not a repository"

WellFormedFiles == <<[name |-> Str("a.ts"), content |-> Str("x")]>>
\* a file without content, a file whose content is a number
MalformedFiles == <<[name |-> Str("a.ts")]>>
MistypedFiles == <<[name |-> Str("a.ts"), content |-> Num(5)]>>

\* A body with every key either build wants: the columns an insert must
\* give, a status, a branch and a path
BodyOf(url, st, files) ==
  [url |-> Str(url), name |-> Str("r"), owner |-> Str("o"), status |-> Str(st),
   branch |-> Str("main"), path |-> Str(""), files |-> files]

\* body with the keys of more laid over it
With(body, more) ==
  [f \in DOMAIN body \cup DOMAIN more |-> IF f \in DOMAIN more THEN more[f] ELSE body[f]]

\* body without the keys gone
Without(body, gone) == [f \in DOMAIN body \ gone |-> body[f]]

\* Request bodies of POST /api/repositories that every build answers alike:
\* the status is a free string, vectorized is optional; bodies the schema
\* rejects: files that are not {name, content} of strings, no name and no
\* owner, a processedAt (a JSON string, no Date).
RepositoryBodies ==
  {BodyOf(WellFormedUrl, st, WellFormedFiles) : st \in Statuses}
  \cup
  {BodyOf(WellFormedUrl, "pending", MalformedFiles),
   BodyOf(WellFormedUrl, "pending", MistypedFiles),
   Without(BodyOf(WellFormedUrl, "pending", WellFormedFiles), {"name", "owner"}),
   With(BodyOf(WellFormedUrl, "pending", WellFormedFiles), [vectorized |-> Bool(TRUE)]),
   With(BodyOf(WellFormedUrl, "pending", WellFormedFiles),
        [processedAt |-> Str("2020-01-01T00:00:00Z")])}

\* Request bodies the builds answer differently: no branch and no path, no
\* status either, a description of null.
BuildBodies ==
  {Without(BodyOf(WellFormedUrl, "pending", WellFormedFiles), {"branch", "path"}),
   Without(BodyOf(WellFormedUrl, "pending", WellFormedFiles), {"status", "branch", "path"}),
   With(BodyOf(WellFormedUrl, "pending", WellFormedFiles), [description |-> JsonNull])}

Embeddings == {<<"v1">>, <<"v1", "v2">>}

FailureReasons == {"fetch failed"}

FetchedFiles == {<<[name |-> "b.ts", content |-> "y"]>>}

Op(name, id, res) == [op |-> name, id |-> id, result |-> res]

\* ------------------------------------------------------------------------
\* server/index.ts: the compute process and its supervisor
\* ------------------------------------------------------------------------
NoExit == -1
\* The code of the close event after a start that failed: the negated errno
\* of the spawn error (ENOENT).
SpawnFailed == -2
ExitCodes == {0, 1, SpawnFailed}

\* The compute service runs: it listens on its port and handles calls.
ComputeRunning == compute = "running"

\* The gateway has spawned the compute process once, the process is up, and
\* the gateway listens.
InitComputeRunning ==
  /\ compute = "running"
  /\ exitCode = NoExit
  /\ spawns = 1
  /\ exitLog = <<>>
  /\ listening = TRUE

\* The gateway listens; the compute process is up, or not up yet.
InitServing ==
  /\ compute \in {"starting", "running"}
  /\ exitCode = NoExit
  /\ spawns = 1
  /\ exitLog = <<>>
  /\ listening = TRUE

\* A close handler that launches the process again.
onCloseRestarting(sup, code) ==
  [spawns |-> sup.spawns + 1,
   exitLog |-> IF code # 0 THEN Append(sup.exitLog, code) ELSE sup.exitLog]

\* pythonProcess.on("close", (code) => { if (code !== 0) log(...) })
onClose(sup, code) ==
  [spawns |-> sup.spawns,
   exitLog |-> IF code # 0 THEN Append(sup.exitLog, code) ELSE sup.exitLog]

\* The compute process has started: it listens on its port.
ComputeReady ==
  /\ compute = "starting"
  /\ compute' = "running"
  /\ UNCHANGED <<exitCode, spawns, exitLog, listening>>
  /\ UNCHANGED <<repositories, lastOp, ingestVars, messageVars, gatewayVars, chatVars, pollVars,
                 storeVars, clientVars, authVars>>

\* pythonProcess.on("error"): the process could not be started; the handler
\* logs the error. The child emits its close event after that (ComputeExit
\* with the code SpawnFailed).
SpawnError ==
  /\ compute = "starting"
  /\ compute' = "failed"
  /\ UNCHANGED <<exitCode, spawns, exitLog, listening>>
  /\ UNCHANGED <<repositories, lastOp, ingestVars, messageVars, gatewayVars, chatVars, pollVars,
                 storeVars, clientVars, authVars>>

\* The close event: the compute process exits with a code, or, after a start
\* that failed, the child closes with the code SpawnFailed; the close handler
\* runs.
ComputeExit(code) ==
  /\ \/ compute \in {"starting", "running"} /\ code # SpawnFailed
     \/ compute = "failed" /\ exitCode = NoExit /\ code = SpawnFailed
  /\ compute' = IF compute = "failed" THEN "failed" ELSE "exited"
  /\ exitCode' = code
  /\ LET sup == onClose([spawns |-> spawns, exitLog |-> exitLog], code)
     IN /\ spawns' = sup.spawns
        /\ exitLog' = sup.exitLog
  /\ UNCHANGED listening
  /\ UNCHANGED <<repositories, lastOp, ingestVars, messageVars, gatewayVars, chatVars, pollVars,
                 storeVars, clientVars, authVars>>

\* The start-up timer of the delayed wiring fires: the proxy and the routes
\* are mounted and the server listens.
StartupTimer ==
  /\ ~listening
  /\ listening' = TRUE
  /\ UNCHANGED <<compute, exitCode, spawns, exitLog>>
  /\ UNCHANGED <<repositories, lastOp, ingestVars, messageVars, gatewayVars, chatVars, pollVars,
                 storeVars, clientVars, authVars>>

\* ------------------------------------------------------------------------
\* The ProcessingStatus component: useQuery on /github/repositories
\* ------------------------------------------------------------------------
\* The components: the one of chat-interface.tsx gives useQuery a
\* refetchInterval function, which the library calls with the fetched data or
\* with the query object (which of the two the build's react-query does is
\* not in the sources); the one of repository/processing-status.tsx sets
\* refetchInterval: false.
Watchers ==
  {"refetchInterval function", "refetchInterval function of the query",
   "refetchInterval false"}

NotFetched == [fetched |-> FALSE, list |-> <<>>]

\* No component has fetched anything.
InitNotWatching ==
  /\ watcher = "refetchInterval function"
  /\ polled = NotFetched
  /\ timer = FALSE

\* refetchInterval: the milliseconds to the next refetch, 0 for false.
\*   (data) => data && Array.isArray(data)
\*             && data.some(repo => repo.status === 'processing') ? 5000 : false
\* A library that hands the callback the fetched data (react-query 4) gets
\* the interval from the list; one that hands it the query object
\* (react-query 5, whose useMutation has the isPending the component reads)
\* gets false, the query being no array.
refetchInterval(w, data) ==
  IF w = "refetchInterval function" /\ \E i \in DOMAIN data : data[i] = "processing"
  THEN 5000
  ELSE 0

\* GET /github/repositories: the statuses of the rows, in table order
StatusList(repos) == [i \in DOMAIN repos |-> repos[i].status]

\* The component mounts and fetches the list.
FetchRepositories ==
  /\ ~polled.fetched
  /\ ComputeRunning
  /\ polled' = [fetched |-> TRUE, list |-> StatusList(repositories)]
  /\ timer' = (refetchInterval(watcher, StatusList(repositories)) > 0)
  /\ UNCHANGED watcher
  /\ UNCHANGED <<repositories, lastOp, ingestVars, messageVars, gatewayVars, chatVars, supervisorVars,
                 storeVars, clientVars, authVars>>

\* The refetch timer fires: the list is fetched again and the timer is set
\* anew from what came.
Refetch ==
  /\ timer
  /\ ComputeRunning
  /\ polled' = [fetched |-> TRUE, list |-> StatusList(repositories)]
  /\ timer' = (refetchInterval(watcher, StatusList(repositories)) > 0)
  /\ UNCHANGED watcher
  /\ UNCHANGED <<repositories, lastOp, ingestVars, messageVars, gatewayVars, chatVars, supervisorVars,
                 storeVars, clientVars, authVars>>

\* onSuccess of the startEmbedding and processRepo mutations:
\* queryClient.invalidateQueries({queryKey: ["/github/repositories"]}).  The
\* mounted query is fetched again at once, whatever its timer, and the timer
\* is set anew from what came.
InvalidateQueries ==
  /\ polled.fetched
  /\ ComputeRunning
  /\ polled' = [fetched |-> TRUE, list |-> StatusList(repositories)]
  /\ timer' = (refetchInterval(watcher, StatusList(repositories)) > 0)
  /\ UNCHANGED watcher
  /\ UNCHANGED <<repositories, lastOp, ingestVars, messageVars, gatewayVars, chatVars, supervisorVars,
                 storeVars, clientVars, authVars>>

\* ------------------------------------------------------------------------
\* server/routes.ts: POST /api/repositories
\* ------------------------------------------------------------------------
\* try { data = insertRepositorySchema.parse(req.body);
\*       repository = await storage.createRepository(data); 201 }
\* catch { 400 }
\* The catch block logs the error and takes the schema's error and any error
\* createRepository throws (the database cannot be reached, the id the data
\* carries is taken, or the serial draws an id that is taken) alike.  The
\* serial is drawn when the insert runs and the data carries no id.  What
\* the parse makes of the body is that of the build the gateway runs.
PostRepositories(body) ==
  /\ repositorySeq < MaxRepos
  /\ \E v \in BuildsFor(drizzleZod, RepositoryBuildsDiffer(body)) :
       /\ drizzleZod' = Learnt(drizzleZod, RepositoryBuildsDiffer(body), v)
       /\ IF insertRepositorySchema(body, v) /\ db = "up"
          THEN LET id == InsertedId(body, repositorySeq) IN
               /\ repositorySeq' = IF "id" \in DOMAIN body THEN repositorySeq
                                   ELSE repositorySeq + 1
               /\ IF HasRepository(repositories, id)
                  THEN /\ UNCHANGED <<repositories, fresh>>
                       /\ lastOp' = Op("POST /api/repositories", 0, "400")
                  ELSE /\ repositories' = createRepository(repositories, body, id)
                       /\ fresh' = [fresh EXCEPT
                                      ![id] = (repositories'[id].status = "pending")]
                       /\ lastOp' = Op("POST /api/repositories", id, "201")
          ELSE /\ UNCHANGED <<repositories, fresh, repositorySeq>>
               /\ lastOp' = Op("POST /api/repositories", 0, "400")
  /\ UNCHANGED <<token, pc, target, seen, result, attempts, db, messageVars, gatewayVars,
                 chatVars, supervisorVars, pollVars, clientVars, authVars>>

\* ------------------------------------------------------------------------
\* The ingestion state machine of the compute service (spec section 4.3),
\* writing through DatabaseStorage.updateRepository
\* ------------------------------------------------------------------------
\* beginProcessing without mutual exclusion: no call waits for the token.
TokenFreeUnguarded(id) == TRUE

\* One token for all repositories: free when no repository's call holds it.
TokenFreeGlobal(id) == \A j \in RepoIds : token[j] = 0

\* The per-repository mutual-exclusion token (spec section 5) is free.
TokenFree(id) == token[id] = 0

\* The result of beginProcessing on a repository read in status st.
BeginResult(st) ==
  IF st = "pending" THEN "ok"
  ELSE IF st = "processing" THEN "ConflictError"
  ELSE "Rejected"

\* A caller starts beginProcessing(id): it takes the repository's token and
\* reads the repository's status.
CallBeginProcessing(c, id) ==
  /\ ComputeRunning
  /\ pc[c] = "idle"
  /\ HasRepository(repositories, id)
  /\ TokenFree(id)
  /\ token' = [token EXCEPT ![id] = c]
  /\ seen' = [seen EXCEPT ![c] = repositories[id].status]
  /\ pc' = [pc EXCEPT ![c] = "write"]
  /\ target' = [target EXCEPT ![c] = id]
  /\ lastOp' = Op("beginProcessing:read", id, "none")
  /\ UNCHANGED <<repositories, result, attempts, fresh, outsideIngestion>>

\* pending -> processing, or ConflictError when it read processing; the token
\* is given back and the call returns.
BeginProcessing(c) ==
  /\ ComputeRunning
  /\ pc[c] = "write"
  /\ LET id == target[c]
         res == BeginResult(seen[c])
     IN /\ repositories' =
             IF res = "ok"
             THEN updateRepository(repositories, id, [status |-> "processing"])
             ELSE repositories
        /\ attempts' = [attempts EXCEPT ![id] = IF res = "ok" THEN @ + 1 ELSE @]
        /\ token' = [token EXCEPT ![id] = 0]
        /\ result' = [result EXCEPT ![c] = res]
        /\ lastOp' = Op("beginProcessing", id, res)
  /\ pc' = [pc EXCEPT ![c] = "done"]
  /\ seen' = [seen EXCEPT ![c] = "pending"]
  /\ UNCHANGED <<target, fresh, outsideIngestion>>

\* A terminal transition of id ends the calls made on it so far: their
\* callers may call again.
EndCalls(id) ==
  /\ pc' = [c \in Callers |-> IF pc[c] = "done" /\ target[c] = id THEN "idle" ELSE pc[c]]
  /\ result' = [c \in Callers |-> IF pc[c] = "done" /\ target[c] = id THEN "none" ELSE result[c]]
  /\ target' = [c \in Callers |-> IF pc[c] = "done" /\ target[c] = id THEN 1 ELSE target[c]]

\* completeProcessing(id, files, metadata): processing -> completed, stores the
\* fetched files and processed_at; ends the attempt.
CompleteProcessing(id, files) ==
  /\ ComputeRunning
  /\ HasRepository(repositories, id)
  /\ TokenFree(id)
  /\ IF repositories[id].status = "processing"
     THEN /\ repositories' = updateRepository(repositories, id,
                [status |-> "completed", files |-> files, processedAt |-> "now"])
          /\ attempts' = [attempts EXCEPT ![id] = IF @ > 0 THEN @ - 1 ELSE 0]
          /\ fresh' = [fresh EXCEPT ![id] = FALSE]
          /\ EndCalls(id)
          /\ lastOp' = Op("completeProcessing", id, "ok")
     ELSE /\ UNCHANGED <<repositories, attempts, fresh, pc, result, target>>
          /\ lastOp' = Op("completeProcessing", id, "Rejected")
  /\ UNCHANGED <<token, seen, outsideIngestion>>

\* failProcessing(id, reason): processing -> error, error_message = reason;
\* vectorized is not written.
FailProcessing(id, reason) ==
  /\ ComputeRunning
  /\ HasRepository(repositories, id)
  /\ TokenFree(id)
  /\ IF repositories[id].status = "processing"
     THEN /\ repositories' = updateRepository(repositories, id,
                [status |-> "error", errorMessage |-> reason])
          /\ attempts' = [attempts EXCEPT ![id] = IF @ > 0 THEN @ - 1 ELSE 0]
          /\ fresh' = [fresh EXCEPT ![id] = FALSE]
          /\ EndCalls(id)
          /\ lastOp' = Op("failProcessing", id, "ok")
     ELSE /\ UNCHANGED <<repositories, attempts, fresh, pc, result, target>>
          /\ lastOp' = Op("failProcessing", id, "Rejected")
  /\ UNCHANGED <<token, seen, outsideIngestion>>

\* The result of beginEmbedding / completeEmbedding on a row: a no-op success
\* when it is vectorized already, a success when it is completed, else rejected.
EmbeddingResult(row) ==
  IF row.vectorized THEN "noop"
  ELSE IF row.status = "completed" THEN "ok"
  ELSE "Rejected"

\* completeEmbedding that stores what it is given whatever the row holds,
\* after the embeddings the row has.
completeEmbeddingAppending(repos, id, embeddings) ==
  updateRepository(repos, id,
    [vectorized |-> TRUE, embeddings |-> repos[id].embeddings \o embeddings])

\* completeEmbedding that does not look at the status of the row.
completeEmbeddingAnyStatus(repos, id, embeddings) ==
  IF repos[id].vectorized THEN repos
  ELSE updateRepository(repos, id, [vectorized |-> TRUE, embeddings |-> embeddings])

\* The row completeEmbedding(id, embeddings) leaves.
completeEmbedding(repos, id, embeddings) ==
  IF EmbeddingResult(repos[id]) = "ok"
  THEN updateRepository(repos, id, [vectorized |-> TRUE, embeddings |-> embeddings])
  ELSE repos

\* beginEmbedding(id): the admission check; it writes nothing.
BeginEmbedding(id) ==
  /\ ComputeRunning
  /\ HasRepository(repositories, id)
  /\ lastOp' = Op("beginEmbedding", id, EmbeddingResult(repositories[id]))
  /\ UNCHANGED <<repositories, token, pc, target, seen, result, attempts, fresh, outsideIngestion>>

\* completeEmbedding(id, embeddings), the end of POST /repositories/{id}/embed.
CompleteEmbedding(id, embeddings) ==
  /\ ComputeRunning
  /\ HasRepository(repositories, id)
  /\ repositories' = completeEmbedding(repositories, id, embeddings)
  /\ lastOp' = Op("completeEmbedding", id, EmbeddingResult(repositories[id]))
  /\ UNCHANGED <<token, pc, target, seen, result, attempts, fresh, outsideIngestion>>

\* ------------------------------------------------------------------------
\* The gateway: the middleware pipelines of server/index.ts and the proxy of
\* server/routes.ts
\* ------------------------------------------------------------------------
\* The wirings of the gateway:
\*   proxyFirst       logging, proxy on /api, body parsing, registerRoutes
\*   reserialize      body parsing, logging, proxy on /api that writes the
\*                    parsed body back, registerRoutes
\*   parseThenRoutes  logging, body parsing, registerRoutes (whose first
\*                    middleware is the proxy on /api/github)
\*   delayed          body parsing, then (after the start-up delay) proxy on
\*                    /api, logging, registerRoutes
Configs == {"proxyFirst", "reserialize", "parseThenRoutes", "delayed"}

\* A wiring that registers the routes ahead of every proxy
PipelineRoutesFirst(cfg) == <<"log", "json", "routes", "proxyApi", "proxyGithub">>

Pipeline(cfg) ==
  CASE cfg = "proxyFirst"      -> <<"log", "proxyApi", "json", "proxyGithub", "routes">>
    [] cfg = "reserialize"     -> <<"json", "log", "log", "proxyApi", "proxyGithub", "routes">>
    [] cfg = "parseThenRoutes" -> <<"log", "json", "proxyGithub", "routes">>
    [] cfg = "delayed"         -> <<"json", "proxyApi", "log", "proxyGithub", "routes">>

\* A JSON text is a sequence of bytes; k and v stand for a quoted string each.
Whitespace == " "
CompactBody == <<"{", "k", ":", "v", "}">>
SpacedBody == <<"{", "k", ":", Whitespace, "v", "}">>

ByteLength(text) == Len(text)

\* JSON.parse: the members of the object, as <<key, value>> pairs.
RECURSIVE ParseMembers(_)
ParseMembers(t) ==
  IF Len(t) < 3 THEN <<>>
  ELSE <<(<<t[1], t[3]>>)>> \o ParseMembers(SubSeq(t, 5, Len(t)))

JSONParse(text) ==
  LET t == SelectSeq(text, LAMBDA b : b # Whitespace)
  IN ParseMembers(SubSeq(t, 2, Len(t) - 1))

\* JSON.stringify: the object's text without any whitespace.
RECURSIVE StringifyMembers(_)
StringifyMembers(v) ==
  IF v = <<>> THEN <<>>
  ELSE <<v[1][1], ":", v[1][2]>>
       \o (IF Len(v) > 1 THEN <<",">> ELSE <<>>)
       \o StringifyMembers(Tail(v))

JSONStringify(v) == <<"{">> \o StringifyMembers(v) \o <<"}">>

\* req.body: undefined until a body parser ran
Undefined == [defined |-> FALSE, value |-> <<>>]
Parsed(v) == [defined |-> TRUE, value |-> v]

BodyMethods == {"POST", "PUT", "PATCH"}

\* express.json(): a request that carries a JSON body has its stream read to
\* the end and parsed; any other request gets req.body = {}.
HasJsonBody(req) == req.body # <<>> /\ req.contentType = "application/json"

\* The options of the two createProxyMiddleware calls.
\*   index.ts: app.use('/api', ...)  pathRewrite '^/api' -> ''
\*   routes.ts: app.use('/api/github', ...)  pathRewrite '^/api/github' -> '/github'
ProxyPrefix(mw) == IF mw = "proxyApi" THEN <<"api">> ELSE <<"api", "github">>
ProxyRewrite(mw) == IF mw = "proxyApi" THEN <<>> ELSE <<"github">>

IsPrefix(p, path) == Len(p) <= Len(path) /\ SubSeq(path, 1, Len(p)) = p

\* pathRewrite: the matched prefix replaced
RewritePath(mw, path) ==
  ProxyRewrite(mw) \o SubSeq(path, Len(ProxyPrefix(mw)) + 1, Len(path))

\* onProxyReq writes JSON.stringify(req.body) onto the outgoing request: only
\* the proxy of the reserialize wiring has such a handler.
WritesBodyBack(cfg, mw, req, body) ==
  /\ cfg = "reserialize"
  /\ mw = "proxyApi"
  /\ req.method \in BodyMethods
  /\ body.defined

\* proxyTimeout and timeout are set: index.ts:94-95 (proxyFirst), routes.ts:16-17
\* (the /api/github proxy)
HasProxyTimeout(cfg, mw) == mw = "proxyGithub" \/ cfg = "proxyFirst"

\* The response the proxy's error handling sends to the client.
\*   proxyFirst:   res.status(500).json({error, details, path})
\*   reserialize:  res.writeHead(500, json); res.end({error, details})
\*   /api/github:  res.status(504).json({message, details})
\*   delayed:      onProxyError is no option of the proxy: its own handler
\*                 answers 504 with a line of text
OnError(cfg, mw) ==
  IF mw = "proxyGithub"
  THEN [status |-> 504, type |-> "json", keys |-> {"message", "details"}]
  ELSE CASE cfg = "proxyFirst"  -> [status |-> 500, type |-> "json", keys |-> {"error", "details", "path"}]
         [] cfg = "reserialize" -> [status |-> 500, type |-> "json", keys |-> {"error", "details"}]
         [] OTHER               -> [status |-> 504, type |-> "text", keys |-> {}]

\* The request the proxy sends: the method and the headers are the incoming
\* ones, the path is rewritten; the body is what onProxyReq wrote, or else
\* what is left to read of the incoming stream.
Outgoing(cfg, mw, req, isDrained, body) ==
  IF WritesBodyBack(cfg, mw, req, body)
  THEN [method |-> req.method,
        path |-> RewritePath(mw, req.path),
        contentLength |-> ByteLength(JSONStringify(body.value)),
        body |-> JSONStringify(body.value),
        by |-> mw]
  ELSE [method |-> req.method,
        path |-> RewritePath(mw, req.path),
        contentLength |-> ByteLength(req.body),
        body |-> IF isDrained THEN <<>> ELSE req.body,
        by |-> mw]

NoRequest == [method |-> "NONE", path |-> <<>>, contentType |-> "none", body |-> <<>>]
NoOutgoing == [method |-> "NONE", path |-> <<>>, contentLength |-> 0, body |-> <<>>, by |-> "none"]
NoResponse == [status |-> 0, type |-> "none", keys |-> {}]

\* What the gateway writes to its log (log(...) of server/vite.ts).
\* The request logging middleware: `Incoming request: ${req.method} ${req.url}`
IncomingLog == {"method", "path"}

\* onProxyReq of the proxy that forwards the request:
\*   proxyFirst:  `Proxying ${req.method} ${req.url} to FastAPI`
\*   reserialize: `Proxying ...`, `Request headers: ...` and, when it writes
\*                the parsed body back, `Request body: ${bodyData}`
\*   delayed and the /api/github proxy of routes.ts: no onProxyReq
OnProxyReqLog(cfg, mw, req, body) ==
  IF mw # "proxyApi" \/ cfg = "delayed" THEN {}
  ELSE IF cfg = "proxyFirst" THEN {"method", "path"}
  ELSE {"method", "path", "request headers"}
       \cup (IF WritesBodyBack(cfg, mw, req, body) THEN {"request body"} ELSE {})

\* onProxyRes of the proxy that forwarded the request:
\*   proxyFirst:  `Proxy response: ${proxyRes.statusCode} for ...`
\*   reserialize: `Proxy response: ...` and, at the end of the response
\*                stream, `Response body: ${responseBody}`
OnProxyResLog(cfg, mw) ==
  IF mw # "proxyApi" \/ cfg = "delayed" THEN {}
  ELSE IF cfg = "proxyFirst" THEN {"method", "path", "status"}
  ELSE {"method", "path", "status", "response body"}

\* onError of the proxy: `Proxy error: ${err.message}`; the proxy of the
\* delayed wiring has no onError and the library's default handler logs
\* nothing through log().
OnErrorLog(cfg, mw) ==
  IF mw = "proxyApi" /\ cfg = "delayed" THEN {} ELSE {"error message"}

\* The response logging middleware of the reserialize wiring, on finish:
\* `${req.method} ${path} ${res.statusCode} in ${duration}ms`.  It stands
\* before the proxy, so it sees forwarded requests too.
OnFinishLog(cfg) ==
  IF cfg = "reserialize" THEN {"method", "path", "status", "latency"} ELSE {}

\* The response logging middleware of the delayed wiring stands behind the
\* proxy and wraps res.json: for a request the gateway's own handlers
\* answer it logs method, path, status, latency and the JSON the handler
\* sent.
OnFinishLogCaptured(cfg) ==
  IF cfg = "delayed"
  THEN {"method", "path", "status", "latency", "handler response body"}
  ELSE {}

\* JSON texts of a repository and of a message; [] stands for an empty
\* array, every other value for a quoted string.
EmptyArray == "[]"
RepositoryText ==
  <<"{", "url", ":", "u", ",", "name", ":", "r", ",", "owner", ":", "o", ",",
    "status", ":", "pending", ",", "branch", ":", "main", ",", "path", ":", "", ",",
    "files", ":", EmptyArray, "}">>
\* the same without status, branch and path
ShortRepositoryText ==
  <<"{", "url", ":", "u", ",", "name", ":", "r", ",", "owner", ":", "o", ",",
    "files", ":", EmptyArray, "}">>
MessageText == <<"{", "role", ":", "user", ",", "content", ":", "hi", "}">>

\* Inputs: the requests of the client
Requests ==
  {[method |-> "POST", path |-> p, contentType |-> "application/json", body |-> b] :
     p \in {<<"api", "github", "process">>, <<"api", "chat", "message">>},
     b \in {CompactBody, SpacedBody}}
  \cup
  {[method |-> "GET", path |-> p, contentType |-> "none", body |-> <<>>] :
     p \in {<<"api", "github", "repositories">>, <<"api", "repositories">>,
            <<"api", "repositories", "1">>, <<"api", "repositories", "x">>,
            <<"api", "repositories", "1", "messages">>}}
  \cup
  {[method |-> "POST", path |-> <<"api", "repositories">>,
    contentType |-> "application/json", body |-> b] : b \in {CompactBody, RepositoryText, ShortRepositoryText}}
  \cup
  {[method |-> "POST", path |-> <<"api", "repositories", "1", "messages">>,
    contentType |-> "application/json", body |-> b] : b \in {CompactBody, MessageText}}

\* The handlers of registerRoutes that insert a row
WritesRepository(req) == req.method = "POST" /\ req.path = <<"api", "repositories">>
WritesMessage(req) ==
  /\ req.method = "POST"
  /\ Len(req.path) = 4
  /\ IsPrefix(<<"api", "repositories">>, req.path)
  /\ req.path[4] = "messages"

Current == Pipeline(config)[step]

\* What a client gets from a port nothing listens on: no HTTP response.
ConnectionRefused == [status |-> 0, type |-> "connection refused", keys |-> {}]

\* A request arrives: it enters the pipeline when the server listens, and
\* else its connection is refused.  (The id sequences are bounded: a request
\* that inserts comes while its sequence has a value left.)
Receive(req) ==
  /\ step = 0 /\ phase = "none" /\ response = NoResponse
  /\ WritesRepository(req) => repositorySeq < MaxRepos
  /\ WritesMessage(req) => messageSeq < MaxMessages
  /\ request' = req
  /\ step' = IF listening THEN 1 ELSE 0
  /\ response' = IF listening THEN NoResponse ELSE ConnectionRefused
  /\ drained' = FALSE
  /\ reqBody' = Undefined
  /\ outgoing' = NoOutgoing
  /\ logged' = {}
  /\ UNCHANGED <<config, phase>>
  /\ UNCHANGED <<repositories, lastOp, ingestVars, messageVars, chatVars, supervisorVars, pollVars,
                 storeVars, clientVars, authVars>>

\* The logging middleware: log(...); next()
LogRequest ==
  /\ step > 0 /\ Current = "log"
  /\ step' = step + 1
  /\ logged' = logged \cup (IF config = "delayed" THEN {} ELSE IncomingLog)
  /\ UNCHANGED <<config, request, drained, reqBody, outgoing, phase, response>>
  /\ UNCHANGED <<repositories, lastOp, ingestVars, messageVars, chatVars, supervisorVars, pollVars,
                 storeVars, clientVars, authVars>>

\* express.json()
ParseBody ==
  /\ step > 0 /\ Current = "json"
  /\ IF HasJsonBody(request)
     THEN /\ drained' = TRUE
          /\ reqBody' = Parsed(JSONParse(request.body))
     ELSE /\ UNCHANGED drained
          /\ reqBody' = Parsed(<<>>)
  /\ step' = step + 1
  /\ UNCHANGED <<config, request, outgoing, phase, response, logged>>
  /\ UNCHANGED <<repositories, lastOp, ingestVars, messageVars, chatVars, supervisorVars, pollVars,
                 storeVars, clientVars, authVars>>

\* createProxyMiddleware mounted on a prefix: a request under the prefix is
\* sent to the compute service, any other goes on to the next middleware.
Proxy ==
  /\ step > 0 /\ Current \in {"proxyApi", "proxyGithub"}
  /\ IF IsPrefix(ProxyPrefix(Current), request.path)
     THEN /\ outgoing' = Outgoing(config, Current, request, drained, reqBody)
          /\ phase' = "sent"
          /\ step' = 0
          /\ logged' = logged \cup OnProxyReqLog(config, Current, request, reqBody)
     ELSE /\ step' = step + 1
          /\ UNCHANGED <<outgoing, phase, logged>>
  /\ UNCHANGED <<config, request, drained, reqBody, response>>
  /\ UNCHANGED <<repositories, lastOp, ingestVars, messageVars, chatVars, supervisorVars, pollVars,
                 storeVars, clientVars, authVars>>

\* The compute service has the whole request: every byte its Content-Length
\* announces.
BodyComplete(out) == ByteLength(out.body) = out.contentLength

\* The compute service answers.
UpstreamResponds ==
  /\ ComputeRunning
  /\ phase = "sent"
  /\ BodyComplete(outgoing)
  /\ phase' = "responded"
  /\ response' = [status |-> 200, type |-> "upstream", keys |-> {}]
  /\ logged' = logged \cup OnProxyResLog(config, outgoing.by) \cup OnFinishLog(config)
  /\ UNCHANGED <<config, request, step, drained, reqBody, outgoing>>
  /\ UNCHANGED <<repositories, lastOp, ingestVars, messageVars, chatVars, supervisorVars, pollVars,
                 storeVars, clientVars, authVars>>

\* The compute service cannot be connected to, or its process went away
\* with the call open: the proxy's error handling answers the client.
UpstreamRefuses ==
  /\ ~ComputeRunning
  /\ phase \in {"sent", "silent"}
  /\ response = NoResponse
  /\ phase' = "refused"
  /\ response' = OnError(config, outgoing.by)
  /\ logged' = logged \cup OnErrorLog(config, outgoing.by) \cup OnFinishLog(config)
  /\ UNCHANGED <<config, request, step, drained, reqBody, outgoing>>
  /\ UNCHANGED <<repositories, lastOp, ingestVars, messageVars, chatVars, supervisorVars, pollVars,
                 storeVars, clientVars, authVars>>

\* The compute service took the connection and sends nothing back (it is
\* slow, or it waits for the rest of the body).
UpstreamSilent ==
  /\ ComputeRunning
  /\ phase = "sent"
  /\ phase' = "silent"
  /\ UNCHANGED <<config, request, step, drained, reqBody, outgoing, response, logged>>
  /\ UNCHANGED <<repositories, lastOp, ingestVars, messageVars, chatVars, supervisorVars, pollVars,
                 storeVars, clientVars, authVars>>

\* The client's connection closed by the gateway with nothing sent on it
SocketDestroyed == [status |-> 0, type |-> "destroyed", keys |-> {}]

\* The time is up on a silent compute service.  The proxy is given timeout
\* and proxyTimeout of the same length: timeout is set on the client's
\* socket, which has been idle since the request came in, so it fires first
\* and the server destroys the socket; the proxy then aborts its outgoing
\* request and, the client's socket being destroyed, raises no error: onError
\* does not run, nothing is sent and nothing is logged (no response finishes).
\* Without the two options nothing happens.
ProxyTimeout ==
  /\ phase = "silent"
  /\ response = NoResponse
  /\ HasProxyTimeout(config, outgoing.by)
  /\ response' = SocketDestroyed
  /\ UNCHANGED logged
  /\ UNCHANGED <<config, request, step, drained, reqBody, outgoing, phase>>
  /\ UNCHANGED <<repositories, lastOp, ingestVars, messageVars, chatVars, supervisorVars, pollVars,
                 storeVars, clientVars, authVars>>

\* The client has its response; the gateway is ready for the next request.
Finish ==
  /\ response # NoResponse
  /\ request' = NoRequest
  /\ step' = 0
  /\ drained' = FALSE
  /\ reqBody' = Undefined
  /\ outgoing' = NoOutgoing
  /\ phase' = "none"
  /\ response' = NoResponse
  /\ logged' = {}
  /\ UNCHANGED config
  /\ UNCHANGED <<repositories, lastOp, ingestVars, messageVars, chatVars, supervisorVars, pollVars,
                 storeVars, clientVars, authVars>>

\* No request in the gateway.
InitGatewayIdle ==
  /\ request = NoRequest
  /\ step = 0
  /\ drained = FALSE
  /\ reqBody = Undefined
  /\ outgoing = NoOutgoing
  /\ phase = "none"
  /\ response = NoResponse
  /\ logged = {}

\* The database answers.
InitStoreUp ==
  /\ db = "up"
  /\ repositorySeq = Len(repositories)
  /\ drizzleZod = "any"

\* null: no user.  An account of the identity provider has an email (a text
\* in two parts, the name and what follows it) or none.
NoUser == [signedIn |-> FALSE, email |-> <<>>]

\* handleSignIn is not running.
Idle == [at |-> "idle", account |-> NoUser]

\* ChatInterface as mounted: useState([]), useState(""), useState(false)
InitClientIdle ==
  /\ ui = [messages |-> <<>>, input |-> <<>>, isLoading |-> FALSE]
  /\ inflight = <<>>

\* AuthProvider as mounted in a production build: useState(null),
\* useState(true); the page shows /login and nobody is signed in.
InitSignedOut ==
  /\ dev = FALSE
  /\ session = NoUser
  /\ user = NoUser
  /\ loading = TRUE
  /\ location = "/login"
  /\ signIn = Idle
  /\ notices = <<>>
  /\ effects = "none"

\* ------------------------------------------------------------------------
\* The chat turn: ChatInterface.handleSubmit and the retrieval assembler of
\* the compute service
\* ------------------------------------------------------------------------
MaxContext == 3

NoTurn == [state |-> "none", ids |-> <<>>, status |-> "none", context |-> <<>>,
           truncated |-> FALSE, retrieved |-> {}]

\* No chat turn under way; the context size bound of the default
\* configuration.
InitChatIdle ==
  /\ chat = NoTurn
  /\ maxContext = MaxContext

\* The size of an embedded chunk
ChunkSize(chunk) == IF chunk = "v1" THEN 1 ELSE 2

\* repository_ids: repositories.map((repo) => repo.id), the ids of the
\* repositories the page shows, in the order of its list.
RepositoryIds(list) == [i \in DOMAIN list |-> list[i]]

\* The lists of repositories a page can show: the rows of the table, each at
\* most once, in any order.
RECURSIVE ListsOver(_)
ListsOver(S) ==
  {<<>>} \cup UNION {{<<id>> \o l : l \in ListsOver(S \ {id})} : id \in S}

RepositoryLists == ListsOver(RepoIds) \ {<<>>}

\* The chunks of the repositories named, in the order of the ids and, within
\* a repository, in stored order.
RECURSIVE ChunksInOrder(_, _)
ChunksInOrder(repos, ids) ==
  IF ids = <<>> THEN <<>>
  ELSE [i \in DOMAIN repos[Head(ids)].embeddings |->
          [repo |-> Head(ids), index |-> i, chunk |-> repos[Head(ids)].embeddings[i]]]
       \o ChunksInOrder(repos, Tail(ids))

\* The chunks of the repositories named, in the order of the table.
RECURSIVE ChunksInTableOrder(_, _, _)
ChunksInTableOrder(repos, ids, id) ==
  IF id > Len(repos) THEN <<>>
  ELSE (IF \E i \in DOMAIN ids : ids[i] = id
        THEN [i \in DOMAIN repos[id].embeddings |->
                [repo |-> id, index |-> i, chunk |-> repos[id].embeddings[i]]]
        ELSE <<>>)
       \o ChunksInTableOrder(repos, ids, id + 1)

\* Take chunks while the total size stays within the budget; stop at the
\* first chunk that does not fit.
RECURSIVE Fill(_, _, _)
Fill(chunks, taken, budget) ==
  IF chunks = <<>> \/ ChunkSize(Head(chunks).chunk) > budget THEN taken
  ELSE Fill(Tail(chunks), Append(taken, Head(chunks)),
            budget - ChunkSize(Head(chunks).chunk))

Admissible(repos, id) == HasRepository(repos, id) /\ repos[id].vectorized

Gathered(ids, all, max) ==
  [status |-> "ok",
   context |-> Fill(all, <<>>, max),
   truncated |-> Len(Fill(all, <<>>, max)) < Len(all),
   retrieved |-> {ids[i] : i \in DOMAIN ids}]

\* An assembler that gathers the chunks in the order of the table.
assembleContextTableOrder(repos, ids, max) ==
  IF \E i \in DOMAIN ids : ~Admissible(repos, ids[i])
  THEN [status |-> "ValidationError", context |-> <<>>, truncated |-> FALSE,
        retrieved |-> {}]
  ELSE Gathered(ids, ChunksInTableOrder(repos, ids, 1), max)

\* An assembler that checks a repository only when it comes to read it.
assembleContextLazily(repos, ids, max) ==
  IF \E i \in DOMAIN ids : ~Admissible(repos, ids[i])
  THEN [status |-> "ValidationError", context |-> <<>>, truncated |-> FALSE,
        retrieved |-> {ids[j] : j \in {k \in DOMAIN ids :
                         \A m \in 1..k : Admissible(repos, ids[m])}}]
  ELSE Gathered(ids, ChunksInOrder(repos, ids), max)

\* The retrieval assembler: every repository named must be vectorized, or the
\* whole turn is rejected before anything is read; else the chunks are
\* gathered in order up to the size bound, and a truncation is logged when
\* chunks were left out.
assembleContext(repos, ids, max) ==
  IF \E i \in DOMAIN ids : ~Admissible(repos, ids[i])
  THEN [status |-> "ValidationError", context |-> <<>>, truncated |-> FALSE,
        retrieved |-> {}]
  ELSE Gathered(ids, ChunksInOrder(repos, ids), max)

\* handleSubmit: POST /chat/message with the repository_ids of the list.
HandleSubmit(list) ==
  /\ chat.state = "none"
  /\ \A i \in DOMAIN list : HasRepository(repositories, list[i])
  /\ chat' = [NoTurn EXCEPT !.state = "sent", !.ids = RepositoryIds(list)]
  /\ UNCHANGED <<repositories, lastOp, ingestVars, messageVars, gatewayVars, maxContext, supervisorVars, pollVars,
                 storeVars, clientVars, authVars>>

\* The compute service handles the chat turn.
ChatMessage ==
  /\ ComputeRunning
  /\ chat.state = "sent"
  /\ chat' = [state |-> "handled", ids |-> chat.ids] @@
             assembleContext(repositories, chat.ids, maxContext)
  /\ UNCHANGED <<repositories, lastOp, ingestVars, messageVars, gatewayVars, maxContext, supervisorVars, pollVars,
                 storeVars, clientVars, authVars>>

\* handleSubmit after the response: the turn is over.
TurnOver ==
  /\ chat.state = "handled"
  /\ chat' = NoTurn
  /\ UNCHANGED <<repositories, lastOp, ingestVars, messageVars, gatewayVars, maxContext, supervisorVars, pollVars,
                 storeVars, clientVars, authVars>>

\* ------------------------------------------------------------------------
\* Spec: the repository records
\* ------------------------------------------------------------------------
\* No call in progress, no token held.
InitIngestion ==
  /\ token = [id \in RepoIds |-> 0]
  /\ pc = [c \in Callers |-> "idle"]
  /\ target = [c \in Callers |-> 1]
  /\ seen = [c \in Callers |-> "pending"]
  /\ result = [c \in Callers |-> "none"]
  /\ attempts = [id \in RepoIds |-> 0]

\* The messages table is empty.
InitMessageTable ==
  /\ messages = <<>>
  /\ messageSeq = 0
  /\ referenceSeq = 0
  /\ clock = 1
  /\ fetched = <<>>

\* The tables are empty.
Init ==
  /\ repositories = <<>>
  /\ lastOp = Op("init", 0, "none")
  /\ InitIngestion
  /\ fresh = [id \in RepoIds |-> FALSE]
  /\ InitMessageTable
  /\ config = "parseThenRoutes"
  /\ InitGatewayIdle
  /\ InitStoreUp
  /\ InitClientIdle
  /\ InitSignedOut
  /\ InitChatIdle
  /\ InitNotWatching
  /\ InitComputeRunning

Next ==
  \/ \E body \in RepositoryBodies : PostRepositories(body)
  \/ \E c \in Callers, id \in RepoIds : CallBeginProcessing(c, id)
  \/ \E c \in Callers : BeginProcessing(c)
  \/ \E id \in RepoIds, files \in FetchedFiles : CompleteProcessing(id, files)
  \/ \E id \in RepoIds, reason \in FailureReasons : FailProcessing(id, reason)

Spec == Init /\ [][Next]_vars

\* ------------------------------------------------------------------------
\* SpecEmbedding: the repository records under the embedding operations
\* ------------------------------------------------------------------------
NextEmbedding ==
  \/ \E body \in RepositoryBodies : PostRepositories(body)
  \/ \E id \in RepoIds, files \in FetchedFiles : CompleteProcessing(id, files)
  \/ \E id \in RepoIds, reason \in FailureReasons : FailProcessing(id, reason)
  \/ \E id \in RepoIds : BeginEmbedding(id)
  \/ \E id \in RepoIds, e \in Embeddings : CompleteEmbedding(id, e)

SpecEmbedding == Init /\ [][NextEmbedding]_vars

\* ------------------------------------------------------------------------
\* The messages table (shared/schema.ts), DatabaseStorage.getMessages /
\* createMessage and the messages endpoints of server/routes.ts
\* ------------------------------------------------------------------------
\* Number(req.params.id) of a path parameter that is no numeral: NaN,
\* written as a value no row id takes.
NaN == -1

\* A Date, which no JSON value is
Date(t) == [typeof |-> "date", value |-> t]

\* The keys insertMessageSchema keeps: every column of the table, id and
\* timestamp too (createInsertSchema without pick or omit).
MessageKeys == {"id", "repositoryId", "role", "content", "timestamp"}

\* The type the schema wants of each key
MessageKeyType ==
  [id |-> "number", repositoryId |-> "number", role |-> "string", content |-> "string",
   timestamp |-> "date"]

\* The keys a message must give: role and content; repositoryId, a serial
\* column refined to z.number(), where the refinement takes the column's
\* place (0.6), not where the column's default makes it optional (0.5).
RequiredMessageKeys(v) ==
  IF v = "0.5" THEN {"role", "content"} ELSE {"repositoryId", "role", "content"}

\* insertMessageSchema.parse succeeds: the required keys are there and every
\* column key the message carries holds a value of the column's type:
\* repositoryId and id numbers (z.number() rejects NaN), role and content
\* strings (any strings), timestamp a Date.
insertMessageSchema(message, v) ==
  /\ RequiredMessageKeys(v) \subseteq DOMAIN message
  /\ \A f \in DOMAIN message \cap MessageKeys :
       /\ message[f].typeof = MessageKeyType[f]
       /\ message[f].typeof = "number" => message[f].value # NaN

\* The data parse returns: the column keys of the message, the others
\* stripped
ParsedMessage(message) == [f \in DOMAIN message \cap MessageKeys |-> message[f].value]

\* The messages id sequence after the insert of message: drawn unless the
\* message carries its id
DrawnId(message, seq) == IF "id" \in DOMAIN message THEN seq ELSE seq + 1

\* The repository_id sequence after the insert of message: repository_id is
\* a serial column too, drawn when the message names no repository
DrawnReference(message, rseq) ==
  IF "repositoryId" \in DOMAIN message THEN rseq ELSE rseq + 1

\* The row an insert of message stores, seq and rseq being the sequences
\* after the insert: id and repositoryId as the message gives them or else
\* from their sequences, timestamp defaultNow() unless the insert gives one.
MessageRow(message, seq, rseq, now) ==
  [id |-> IF "id" \in DOMAIN message THEN message.id ELSE seq,
   repositoryId |-> IF "repositoryId" \in DOMAIN message THEN message.repositoryId
                    ELSE rseq,
   role |-> message.role,
   content |-> message.content,
   timestamp |-> IF "timestamp" \in DOMAIN message THEN message.timestamp ELSE now]

\* A messages table without the foreign key
ForeignKeyAbsent(repos, row) == TRUE

\* repository_id references repositories.id
ForeignKeyHolds(repos, row) == HasRepository(repos, row.repositoryId)

\* id is the primary key: no stored row has the id of the new one
PrimaryKeyFree(msgs, row) == \A i \in DOMAIN msgs : msgs[i].id # row.id

\* The insert of the row violates no constraint of the table
Insertable(repos, msgs, row) == PrimaryKeyFree(msgs, row) /\ ForeignKeyHolds(repos, row)

\* createMessage that writes over the row stored last.
createMessageReplacing(msgs, message, seq, rseq, now) ==
  IF msgs = <<>> THEN <<MessageRow(message, seq, rseq, now)>>
  ELSE [msgs EXCEPT ![Len(msgs)] = MessageRow(message, seq, rseq, now)]

\* createMessage: insert ... returning
createMessage(msgs, message, seq, rseq, now) ==
  Append(msgs, MessageRow(message, seq, rseq, now))

\* The rows of a repository, as a set
RowsOf(msgs, repositoryId) ==
  {msgs[i] : i \in {j \in DOMAIN msgs : msgs[j].repositoryId = repositoryId}}

\* The lists that hold each row of S once
Orders(S) ==
  {f \in [1..Cardinality(S) -> S] : \A i, j \in DOMAIN f : i # j => f[i] # f[j]}

\* getMessages without its orderBy: the rows of the repository in the order
\* the table holds them.
getMessagesUnordered(msgs, repositoryId) ==
  {SelectSeq(msgs, LAMBDA m : m.repositoryId = repositoryId)}

\* getMessages: select ... where repositoryId = ... order by timestamp.  The
\* lists the query may return: rows of equal timestamp come in either order.
getMessages(msgs, repositoryId) ==
  {f \in Orders(RowsOf(msgs, repositoryId)) :
     \A i, j \in DOMAIN f : i < j => f[i].timestamp <= f[j].timestamp}

\* Inputs: the :id of a request path names a stored repository or none
ParamIds == 1..(MaxRepos + 1)

\* Number(req.params.id): the id of a stored repository, of none, or NaN
PathIds == ParamIds \cup {NaN}

\* Request bodies of POST /api/repositories/:id/messages: a message, one
\* without content, one with a timestamp (a JSON string, no Date)
MessageBodies ==
  {[role |-> Str("user"), content |-> Str("hi")],
   [role |-> Str("user")],
   [role |-> Str("user"), content |-> Str("hi"), timestamp |-> Str("2020-01-01T00:00:00Z")]}

\* The id a message gives its row itself
OwnMessageId == MaxMessages

\* Request bodies that carry the id of their row
OwnIdBodies == {[role |-> Str("user"), content |-> Str("hi"), id |-> Num(OwnMessageId)]}

\* InsertMessages with a timestamp of their own
TimedMessages ==
  {[repositoryId |-> r, role |-> "assistant", content |-> "ok", timestamp |-> t] :
     r \in ParamIds, t \in 1..MaxTime}

\* InsertMessages that name no repository (the type of the 0.5 build has
\* repositoryId optional), or carry the id of their row
KeyedMessages ==
  {[role |-> "user", content |-> "hi", timestamp |-> 1],
   [repositoryId |-> 1, role |-> "user", content |-> "hi", timestamp |-> 1,
    id |-> OwnMessageId]}

\* The message the handler validates: {...req.body, repositoryId: Number(id)}
WithRepositoryId(body, id) == With(body, [repositoryId |-> Num(id)])

\* POST /api/repositories/:id/messages
\* try { data = insertMessageSchema.parse({...req.body, repositoryId: Number(id)});
\*       message = await storage.createMessage(data); 201 } catch { 400 }
\* id is Number(req.params.id).  The catch block takes the schema's error,
\* a violated primary or foreign key and a database that cannot be reached
\* alike.  The message always names its repository, so every build parses
\* it alike.  The insert draws the serial id, unless the data carries an id, before
\* the keys are checked.
PostMessage(id, body) ==
  /\ messageSeq < MaxMessages
  /\ LET message == WithRepositoryId(body, id)
         data == ParsedMessage(message)
         row == MessageRow(data, messageSeq', referenceSeq, clock)
     IN IF (\A v \in Builds(drizzleZod) : insertMessageSchema(message, v)) /\ db = "up"
        THEN /\ messageSeq' = DrawnId(data, messageSeq)
             /\ IF Insertable(repositories, messages, row)
                THEN /\ messages' = createMessage(messages, data, messageSeq',
                                                  referenceSeq, clock)
                     /\ lastOp' = Op("POST messages", id, "201")
                ELSE /\ UNCHANGED messages
                     /\ lastOp' = Op("POST messages", id, "400")
        ELSE /\ UNCHANGED <<messages, messageSeq>>
             /\ lastOp' = Op("POST messages", id, "400")
  /\ fetched' = <<>>
  /\ UNCHANGED <<repositories, referenceSeq, clock, ingestVars, gatewayVars, chatVars,
                 supervisorVars, pollVars, storeVars, clientVars, authVars>>

\* The repository an InsertMessage names, 0 when it names none
Named(message) == IF "repositoryId" \in DOMAIN message THEN message.repositoryId ELSE 0

\* IStorage.createMessage called with an InsertMessage: nothing is parsed
\* here.  The insert draws the serial id and the serial repository_id, each
\* unless the message carries it, and checks the keys after that: a row
\* whose id is taken or whose repository_id has no repository is not stored
\* and the call throws.  A database that cannot be reached throws before
\* anything is drawn.
StorageCreateMessage(message) ==
  /\ messageSeq < MaxMessages
  /\ referenceSeq <= MaxRepos
  /\ IF db # "up"
     THEN /\ UNCHANGED <<messages, messageSeq, referenceSeq>>
          /\ lastOp' = Op("createMessage", Named(message), "throws")
     ELSE /\ messageSeq' = DrawnId(message, messageSeq)
          /\ referenceSeq' = DrawnReference(message, referenceSeq)
          /\ LET row == MessageRow(message, messageSeq', referenceSeq', clock)
             IN IF Insertable(repositories, messages, row)
                THEN /\ messages' = createMessage(messages, message, messageSeq',
                                                  referenceSeq', clock)
                     /\ lastOp' = Op("createMessage", row.repositoryId, "ok")
                ELSE /\ UNCHANGED messages
                     /\ lastOp' = Op("createMessage", row.repositoryId, "throws")
  /\ fetched' = <<>>
  /\ UNCHANGED <<repositories, clock, ingestVars, gatewayVars, chatVars, supervisorVars, pollVars,
                 storeVars, clientVars, authVars>>

\* GET /api/repositories/:id/messages
\* try { messages = await storage.getMessages(Number(id)); 200 }
\* catch { log(error); 500 {message, details} }
\* The query throws when the database cannot be reached and when the id is
\* NaN (no integer for the where clause).
GetMessages(id) ==
  /\ IF db = "up" /\ id # NaN
     THEN /\ fetched' \in getMessages(messages, id)
          /\ lastOp' = Op("GET messages", id, "200")
     ELSE /\ fetched' = <<>>
          /\ lastOp' = Op("GET messages", id, "500")
  /\ UNCHANGED <<repositories, messages, messageSeq, referenceSeq, clock, ingestVars,
                 gatewayVars, chatVars, supervisorVars, pollVars, storeVars, clientVars,
                 authVars>>

\* Time passes on the database clock.
Tick ==
  /\ clock < MaxTime
  /\ clock' = clock + 1
  /\ lastOp' = Op("tick", 0, "none")
  /\ fetched' = <<>>
  /\ UNCHANGED <<repositories, messages, messageSeq, referenceSeq, ingestVars, gatewayVars,
                 chatVars, supervisorVars, pollVars, storeVars, clientVars, authVars>>

\* Two repositories are stored, as two POST /api/repositories leave them.
PendingBody == BodyOf(WellFormedUrl, "pending", WellFormedFiles)

InitMessages ==
  /\ repositories = createRepository(createRepository(<<>>, PendingBody, 1), PendingBody, 2)
  /\ lastOp = Op("init", 0, "none")
  /\ InitIngestion
  /\ fresh = [id \in RepoIds |-> id \in DOMAIN repositories]
  /\ InitMessageTable
  /\ config = "parseThenRoutes"
  /\ InitGatewayIdle
  /\ InitStoreUp
  /\ InitClientIdle
  /\ InitSignedOut
  /\ InitChatIdle
  /\ InitNotWatching
  /\ InitComputeRunning

NextMessages ==
  \/ \E id \in ParamIds, body \in MessageBodies : PostMessage(id, body)
  \/ \E message \in TimedMessages : StorageCreateMessage(message)
  \/ \E id \in PathIds : GetMessages(id)
  \/ Tick

SpecMessages == InitMessages /\ [][NextMessages]_vars

\* ------------------------------------------------------------------------
\* SpecReferences: messages posted under any :id while repositories are
\* being created
\* ------------------------------------------------------------------------
NextReferences ==
  \/ PostRepositories(PendingBody)
  \/ \E id \in PathIds, body \in MessageBodies \cup OwnIdBodies : PostMessage(id, body)
  \/ \E message \in KeyedMessages : StorageCreateMessage(message)

SpecReferences == Init /\ [][NextReferences]_vars

\* ------------------------------------------------------------------------
\* The handlers of registerRoutes (server/routes.ts) behind the middleware
\* ------------------------------------------------------------------------
\* Number(req.params.id)
Number(text) ==
  CASE text = "1" -> 1
    [] text = "2" -> 2
    [] text = "3" -> 3
    [] OTHER -> NaN

\* req.body as a handler reads it: the object express.json() parsed, {} when
\* the request had no JSON body, undefined (which the schemas reject and the
\* spread takes as {}) when no parser ran.
RequestData(body) ==
  LET m == IF body.defined THEN body.value ELSE <<>>
  IN [key \in {m[i][1] : i \in DOMAIN m} |->
        LET v == m[CHOOSE i \in DOMAIN m : m[i][1] = key][2]
        IN IF v = EmptyArray THEN <<>> ELSE Str(v)]

\* The handler express picks for a request; "static" when none of
\* registerRoutes matches and the request goes on to vite / serveStatic.
Route(req) ==
  LET underRepositories == IsPrefix(<<"api", "repositories">>, req.path)
  IN CASE req.method = "GET" /\ req.path = <<"api", "repositories">> -> "getRepositories"
       [] req.method = "GET" /\ underRepositories /\ Len(req.path) = 3 -> "getRepository"
       [] WritesRepository(req) -> "createRepository"
       [] req.method = "GET" /\ underRepositories /\ Len(req.path) = 4
            /\ req.path[4] = "messages" -> "getMessages"
       [] WritesMessage(req) -> "createMessage"
       [] OTHER -> "static"

\* res.json(result) / res.status(st).json(result)
Json(st) == [status |-> st, type |-> "json", keys |-> {}]
\* res.status(404).json({message})
NotFound == [status |-> 404, type |-> "json", keys |-> {"message"}]
\* the catch blocks: res.status(st).json({message, details})
Caught(st) == [status |-> st, type |-> "json", keys |-> {"message", "details"}]
\* vite / serveStatic: the page
Page == [status |-> 200, type |-> "gateway", keys |-> {}]

\* What the handlers of registerRoutes and what follows them answer
RouteResponses == {Json(200), Json(201), NotFound, Caught(400), Caught(500), Page}

\* The tables as a handler leaves them
Tables(repos, fr, rseq, msgs, mseq) ==
  [repositories |-> repos, fresh |-> fr, repositorySeq |-> rseq,
   messages |-> msgs, messageSeq |-> mseq]

\* A handler's answer and what it left in the tables
Outcome(res, tables) == [response |-> res, tables |-> tables]

\* The handler of the request runs to its end in a gateway built with
\* drizzle-zod v: its answer, and the tables as it leaves them.  A catch
\* block has answered exactly when the answer is Caught(...).
RouteOutcome(req, body, isUp, v, repos, fr, rseq, msgs, mseq, refseq, now) ==
  LET same == Tables(repos, fr, rseq, msgs, mseq)
      data == RequestData(body)
      route == Route(req)
  IN CASE route = "getRepositories" ->
            Outcome(IF isUp THEN Json(200) ELSE Caught(500), same)
       [] route = "getRepository" ->
            LET id == Number(req.path[3])
            IN Outcome(IF ~isUp \/ id = NaN THEN Caught(500)
                       ELSE IF HasRepository(repos, id) THEN Json(200) ELSE NotFound,
                       same)
       [] route = "createRepository" ->
            IF body.defined /\ insertRepositorySchema(data, v) /\ isUp
            THEN LET id == InsertedId(data, rseq)
                     drawn == IF "id" \in DOMAIN data THEN rseq ELSE rseq + 1
                 IN IF HasRepository(repos, id)
                    THEN Outcome(Caught(400), Tables(repos, fr, drawn, msgs, mseq))
                    ELSE LET created == createRepository(repos, data, id)
                         IN Outcome(Json(201),
                                    Tables(created,
                                           [fr EXCEPT ![id] = (created[id].status = "pending")],
                                           drawn, msgs, mseq))
            ELSE Outcome(Caught(400), same)
       [] route = "getMessages" ->
            Outcome(IF isUp /\ Number(req.path[3]) # NaN THEN Json(200) ELSE Caught(500),
                    same)
       [] route = "createMessage" ->
            LET message == WithRepositoryId(data, Number(req.path[3]))
                parsed == ParsedMessage(message)
                drawn == DrawnId(parsed, mseq)
            IN IF insertMessageSchema(message, v) /\ isUp
               THEN IF Insertable(repos, msgs, MessageRow(parsed, drawn, refseq, now))
                    THEN Outcome(Json(201),
                                 Tables(repos, fr, rseq,
                                        createMessage(msgs, parsed, drawn, refseq, now),
                                        drawn))
                    ELSE Outcome(Caught(400), Tables(repos, fr, rseq, msgs, drawn))
               ELSE Outcome(Caught(400), same)
       [] OTHER -> Outcome(Page, same)

\* The catch blocks write the error to the log before they answer:
\* log(`Error ...: ${error}`)
OnCatchLog(res) == IF res.keys = {"message", "details"} THEN {"error message"} ELSE {}

\* The response logging middleware of the reserialize wiring logs every
\* request, the one of the delayed wiring the requests under /api
\* (path.startsWith("/api")).
OnRouteFinishLog(cfg, req) ==
  OnFinishLog(cfg)
  \cup (IF IsPrefix(<<"api">>, req.path) THEN OnFinishLogCaptured(cfg) ELSE {})

\* The database connection is lost: every query of storage throws.
StorageFails ==
  /\ db = "up"
  /\ db' = "down"
  /\ UNCHANGED <<repositories, repositorySeq, drizzleZod, lastOp, ingestVars, messageVars,
                 gatewayVars, chatVars, supervisorVars, pollVars, clientVars, authVars>>

\* The database answers again.
StorageRecovers ==
  /\ db = "down"
  /\ db' = "up"
  /\ UNCHANGED <<repositories, repositorySeq, drizzleZod, lastOp, ingestVars, messageVars,
                 gatewayVars, chatVars, supervisorVars, pollVars, clientVars, authVars>>

\* The request has passed the middleware: the handler registerRoutes has for
\* it runs, reads and writes the tables and answers; a request no handler
\* matches gets the page.
Routes ==
  /\ step > 0 /\ Current = "routes"
  /\ LET differ == /\ Route(request) = "createRepository"
                   /\ reqBody.defined
                   /\ RepositoryBuildsDiffer(RequestData(reqBody))
     IN \E v \in BuildsFor(drizzleZod, differ) :
     LET out == RouteOutcome(request, reqBody, db = "up", v, repositories, fresh,
                             repositorySeq, messages, messageSeq, referenceSeq, clock)
     IN /\ drizzleZod' = Learnt(drizzleZod, differ, v)
        /\ response' = out.response
        /\ logged' = logged \cup OnCatchLog(out.response)
                             \cup OnRouteFinishLog(config, request)
        /\ repositories' = out.tables.repositories
        /\ fresh' = out.tables.fresh
        /\ repositorySeq' = out.tables.repositorySeq
        /\ messages' = out.tables.messages
        /\ messageSeq' = out.tables.messageSeq
  /\ step' = 0
  /\ UNCHANGED <<config, request, drained, reqBody, outgoing, phase>>
  /\ UNCHANGED <<lastOp, token, pc, target, seen, result, attempts, referenceSeq, clock,
                 fetched, db, chatVars, supervisorVars, pollVars, clientVars, authVars>>

\* ------------------------------------------------------------------------
\* SpecGateway: requests through the gateway, in each of its wirings
\* ------------------------------------------------------------------------
InitGateway ==
  /\ repositories = <<>>
  /\ lastOp = Op("init", 0, "none")
  /\ InitIngestion
  /\ fresh = [id \in RepoIds |-> FALSE]
  /\ InitMessageTable
  /\ config \in Configs
  /\ InitGatewayIdle
  /\ InitStoreUp
  /\ InitClientIdle
  /\ InitSignedOut
  /\ InitChatIdle
  /\ InitNotWatching
  /\ InitServing

NextGateway ==
  \/ \E req \in Requests : Receive(req)
  \/ LogRequest
  \/ ParseBody
  \/ Proxy
  \/ Routes
  \/ StorageFails
  \/ StorageRecovers
  \/ UpstreamResponds
  \/ UpstreamRefuses
  \/ UpstreamSilent
  \/ ProxyTimeout
  \/ Finish

SpecGateway == InitGateway /\ [][NextGateway]_vars

\* ------------------------------------------------------------------------
\* SpecChat: chat turns over tables of ingested repositories
\* ------------------------------------------------------------------------
\* The rows ingestion leaves behind: not yet embedded, or embedded.
ChunkLists == {<<"v1">>, <<"v1", "v2">>, <<"v2", "v1">>}

ChatRows ==
  {[InsertedRow(PendingBody) EXCEPT !.status = "completed",
                              !.processedAt = "now"]}
  \cup
  {[InsertedRow(PendingBody) EXCEPT !.status = "completed",
                              !.processedAt = "now",
                              !.vectorized = TRUE, !.embeddings = e] : e \in ChunkLists}

InitChat ==
  /\ repositories \in [RepoIds -> ChatRows]
  /\ lastOp = Op("init", 0, "none")
  /\ InitIngestion
  /\ fresh = [id \in RepoIds |-> FALSE]
  /\ InitMessageTable
  /\ config = "parseThenRoutes"
  /\ InitGatewayIdle
  /\ InitStoreUp
  /\ InitClientIdle
  /\ InitSignedOut
  /\ chat = NoTurn
  /\ maxContext \in 0..MaxContext
  /\ InitNotWatching
  /\ InitComputeRunning

NextChat ==
  \/ \E list \in RepositoryLists : HandleSubmit(list)
  \/ ChatMessage
  \/ TurnOver

SpecChat == InitChat /\ [][NextChat]_vars

\* ------------------------------------------------------------------------
\* SpecStorage: the repositories table under POST /api/repositories with any
\* body and under IStorage.updateRepository
\* ------------------------------------------------------------------------
\* The id a body gives its row itself
OwnId == MaxRepos

\* Bodies beyond those the repository processor posts: a status outside the
\* data model, a url that names no repository, no url at all, an id of its
\* own.
StorageBodies ==
  RepositoryBodies
  \cup
  BuildBodies
  \cup
  {BodyOf(WellFormedUrl, "archived", WellFormedFiles),
   BodyOf(MalformedUrl, "pending", WellFormedFiles),
   Without(BodyOf(WellFormedUrl, "pending", WellFormedFiles), {"url"}),
   With(BodyOf(WellFormedUrl, "pending", WellFormedFiles), [id |-> Num(OwnId)])}

\* updates: Partial<Repository>
StatusUpdates == {[status |-> st] : st \in Statuses \cup {"archived"}}

\* updates that carry the files column
FileUpdates == {[files |-> f] : f \in FetchedFiles}

\* IStorage.updateRepository(id, updates): the updated row, or undefined
StorageUpdateRepository(id, updates) ==
  /\ repositories' = updateRepository(repositories, id, updates)
  /\ lastOp' = Op("updateRepository", id,
                  IF HasRepository(repositories, id) THEN "row" ELSE "undefined")
  /\ UNCHANGED <<ingestVars, outsideIngestion>>

NextStorage ==
  \/ \E body \in StorageBodies : PostRepositories(body)
  \/ \E id \in ParamIds, updates \in StatusUpdates \cup FileUpdates :
       StorageUpdateRepository(id, updates)

SpecStorage == Init /\ [][NextStorage]_vars

\* ------------------------------------------------------------------------
\* SpecCrud: the CRUD endpoints of server/routes.ts over a database that
\* may become unreachable
\* ------------------------------------------------------------------------
\* GET /api/repositories/:id
\* try { repository = await storage.getRepository(Number(id));
\*       if (!repository) return 404; res.json(repository) }
\* catch { log(error); 500 }
\* The query throws when the database cannot be reached and when the id is
\* NaN.
GetRepository(id) ==
  /\ lastOp' = Op("GET /api/repositories/:id", id,
                  IF db # "up" \/ id = NaN THEN "500"
                  ELSE IF HasRepository(repositories, id) THEN "200" ELSE "404")
  /\ UNCHANGED <<repositories, ingestVars, outsideIngestion>>

NextCrud ==
  \/ \E body \in StorageBodies : PostRepositories(body)
  \/ \E id \in ParamIds : GetRepository(id)
  \/ \E id \in ParamIds, body \in MessageBodies : PostMessage(id, body)
  \/ StorageFails
  \/ StorageRecovers

SpecCrud == Init /\ [][NextCrud]_vars

\* ------------------------------------------------------------------------
\* SpecClient: ChatInterface (components/chat/chat-interface.tsx): the
\* conversation the page keeps, the /chat/message requests it sends and
\* what comes back
\* ------------------------------------------------------------------------
MaxTurns == 2

\* Texts are sequences of characters.
\* String.prototype.trim: leading and trailing whitespace removed
RECURSIVE trimStart(_)
trimStart(text) ==
  IF text # <<>> /\ Head(text) = Whitespace THEN trimStart(Tail(text)) ELSE text

RECURSIVE trimEnd(_)
trimEnd(text) ==
  IF text # <<>> /\ text[Len(text)] = Whitespace
  THEN trimEnd(SubSeq(text, 1, Len(text) - 1))
  ELSE text

trim(text) == trimEnd(trimStart(text))

\* Inputs: what the user types into the textarea
Typed == {<<>>, <<Whitespace>>, <<"q">>, <<Whitespace, "r", Whitespace>>}

\* data.response of an answered turn
AnswerText == <<"a">>

\* "Sorry, I encountered an error processing your request."
ErrorText == <<"s", "o", "r", "r", "y">>

\* The ways a /chat/message request fails: fetch rejects, the gateway
\* answers with an error status, the compute service answers non-OK, the
\* body of the response is no JSON.
ChatFailures ==
  {"network error", "gateway error status", "non-OK response", "response.json() throws"}

\* if (!input.trim() || isLoading) return;  negated: an empty string is falsy
canSubmitWhileLoading(state) == trim(state.input) # <<>>

canSubmit(state) == trim(state.input) # <<>> /\ ~state.isLoading

\* chat_history without the first message of the conversation
chatHistoryDroppingFirst(msgs) ==
  [i \in 1..(Len(msgs) - 1) |-> [role |-> msgs[i + 1].role, content |-> msgs[i + 1].content]]

\* chat_history: messages.map(({role, content}) => ({role, content}))
chatHistory(msgs) ==
  [i \in DOMAIN msgs |-> [role |-> msgs[i].role, content |-> msgs[i].content]]

\* The catch block that appends nothing
onChatErrorSilent(msgs, now) == msgs

\* catch: setMessages(prev => [...prev, {role: "assistant", content: "Sorry, ..."}])
onChatError(msgs, now) ==
  Append(msgs, [role |-> "assistant", content |-> ErrorText, timestamp |-> now])

\* The compute service answering a turn without storing its response
persistNothing(msgs, owner, text, seq, now) == msgs

\* The compute service stores the response of a turn as a Message of one of
\* the repositories the turn names (spec section 3, ChatTurn).
persistResponse(msgs, owner, text, seq, now) ==
  createMessage(msgs, [repositoryId |-> owner, role |-> "assistant", content |-> text],
                seq, owner, now)

\* onChange: setInput(e.target.value)
OnChange(text) ==
  /\ ui' = [ui EXCEPT !.input = text]
  /\ UNCHANGED <<repositories, lastOp, ingestVars, messageVars, gatewayVars, chatVars,
                 supervisorVars, pollVars, storeVars, inflight, authVars>>

\* handleSubmit up to its await: the guard, then the user message is
\* appended, the input cleared, isLoading set and the request sent with the
\* ids of the repositories of the page and the messages of the render the
\* handler closes over.
SubmitMessage ==
  /\ Len(ui.messages) < 2 * MaxTurns
  /\ IF canSubmit(ui)
     THEN /\ ui' = [messages |-> Append(ui.messages,
                                        [role |-> "user", content |-> trim(ui.input),
                                         timestamp |-> clock]),
                    input |-> <<>>,
                    isLoading |-> TRUE]
          /\ inflight' = Append(inflight,
                                [repository_ids |->
                                   RepositoryIds([i \in DOMAIN repositories |-> i]),
                                 message |-> trim(ui.input),
                                 chat_history |-> chatHistory(ui.messages)])
          /\ lastOp' = Op("handleSubmit", Len(ui'.messages), "sent")
     ELSE /\ UNCHANGED <<ui, inflight>>
          /\ lastOp' = Op("handleSubmit", Len(ui.messages), "ignored")
  /\ UNCHANGED <<repositories, ingestVars, messageVars, gatewayVars, chatVars,
                 supervisorVars, pollVars, storeVars, authVars>>

\* The compute service answers the oldest request in flight: it assembles
\* the context, stores its response as a Message and returns it; handleSubmit
\* goes on after its await: response.ok, data.response appended, finally
\* isLoading cleared.
ChatAnswered ==
  /\ ComputeRunning
  /\ inflight # <<>>
  /\ LET turn == Head(inflight) IN
     /\ assembleContext(repositories, turn.repository_ids, maxContext).status
          # "ValidationError"
     /\ \E owner \in RepoIds :
          /\ \E i \in DOMAIN turn.repository_ids : turn.repository_ids[i] = owner
          /\ messageSeq' = messageSeq + 1
          /\ messages' = persistResponse(messages, owner, AnswerText, messageSeq', clock)
  /\ ui' = [ui EXCEPT !.messages = Append(@, [role |-> "assistant", content |-> AnswerText,
                                               timestamp |-> clock]),
                       !.isLoading = FALSE]
  /\ inflight' = Tail(inflight)
  /\ lastOp' = Op("POST /chat/message", Len(ui'.messages), "ok")
  /\ UNCHANGED <<repositories, referenceSeq, clock, fetched, ingestVars, gatewayVars,
                 chatVars, supervisorVars, pollVars, storeVars, authVars>>

\* The oldest request in flight fails: apiRequest rejects, or the response
\* is not OK and handleSubmit throws, or response.json() throws; the catch
\* block appends the error message and finally clears isLoading.
ChatFailed(failure) ==
  /\ inflight # <<>>
  /\ ui' = [ui EXCEPT !.messages = onChatError(@, clock), !.isLoading = FALSE]
  /\ inflight' = Tail(inflight)
  /\ lastOp' = Op("POST /chat/message", Len(ui'.messages), failure)
  /\ UNCHANGED <<repositories, ingestVars, messageVars, gatewayVars, chatVars,
                 supervisorVars, pollVars, storeVars, authVars>>

\* The page shows the repositories of the table: embedded ones, or one
\* that is not embedded yet.
ClientRows ==
  {[InsertedRow(PendingBody) EXCEPT !.status = "completed",
                              !.processedAt = "now"],
   [InsertedRow(PendingBody) EXCEPT !.status = "completed",
                              !.processedAt = "now",
                              !.vectorized = TRUE, !.embeddings = <<"v1">>]}

InitClient ==
  /\ repositories \in [RepoIds -> ClientRows]
  /\ lastOp = Op("init", 0, "none")
  /\ InitIngestion
  /\ fresh = [id \in RepoIds |-> FALSE]
  /\ InitMessageTable
  /\ config = "parseThenRoutes"
  /\ InitGatewayIdle
  /\ InitStoreUp
  /\ InitClientIdle
  /\ InitSignedOut
  /\ InitChatIdle
  /\ InitNotWatching
  /\ InitComputeRunning

NextClient ==
  \/ \E text \in Typed : OnChange(text)
  \/ SubmitMessage
  \/ ChatAnswered
  \/ \E failure \in ChatFailures : ChatFailed(failure)

SpecClient == InitClient /\ [][NextClient]_vars

\* ------------------------------------------------------------------------
\* SpecAuth: AuthProvider (client/src/lib/auth.tsx, client/src/config.ts),
\* the routes of App.tsx and the identity provider
\* ------------------------------------------------------------------------
Agile6Suffix == "@agile6.com"

\* Auth state changes that can wait for delivery at once
MaxNotices == 2

\* The accounts a user can pick in the popup: one of the organisation, one
\* of another domain, one without an email.
Accounts ==
  {[signedIn |-> TRUE, email |-> <<"a", Agile6Suffix>>],
   [signedIn |-> TRUE, email |-> <<"b", "@other.com">>],
   [signedIn |-> TRUE, email |-> <<>>]}

\* The mock user of development mode: dev@agile6.com
DevUser == [signedIn |-> TRUE, email |-> <<"dev", Agile6Suffix>>]

\* email?.endsWith(suffix): undefined for an account without email
endsWith(email, suffix) == email # <<>> /\ email[Len(email)] = suffix

\* The paths of App.tsx that stand behind PrivateRoute
ProtectedPaths == {"/", "/chat"}

\* PrivateRoute: if (loading) return <Loading/>; return user ? <Component/> : null
PrivateRouteRenders(isLoading, u) == ~isLoading /\ u.signedIn

\* A protected route component is on the page.
ProtectedRendered ==
  location \in ProtectedPaths /\ PrivateRouteRenders(loading, user)

\* setLocation(path) in a handler: the route component of a new path mounts
\* and its effect is due, unless all effects are due anyway.
Navigated(due, from, to) ==
  IF due = "state" THEN "state" ELSE IF from # to THEN "mount" ELSE due

\* The callback of auth.onAuthStateChanged takes the next auth state:
\* setUser(user); setLoading(false); a user on /login goes to /, no user
\* elsewhere goes to /login.
OnAuthStateChanged ==
  /\ ~dev
  /\ notices # <<>>
  /\ user' = Head(notices)
  /\ loading' = FALSE
  /\ location' = IF Head(notices).signedIn /\ location = "/login" THEN "/"
                 ELSE IF ~Head(notices).signedIn /\ location # "/login" THEN "/login"
                 ELSE location
  /\ notices' = Tail(notices)
  /\ effects' = IF user' # user \/ loading THEN "state"
                ELSE Navigated(effects, location, location')
  /\ UNCHANGED <<repositories, lastOp, ingestVars, messageVars, gatewayVars, chatVars,
                 supervisorVars, pollVars, storeVars, clientVars, dev, session, signIn>>

\* The useEffect hooks that are due run.  The effect of the route component
\* runs when the component mounts and when user or loading changed: Login
\* (on /login) sends a user to /, PrivateRoute (on a protected path) sends
\* no user to /login.  The effect of AppContent runs when user or loading
\* changed, after that of the route component, and sends a user to /chat.
\* A path that changed mounts its route component.
RunEffects ==
  /\ effects # "none"
  /\ location' = IF ~loading /\ user.signedIn
                 THEN (IF effects = "state" THEN "/chat"
                       ELSE IF location = "/login" THEN "/"
                       ELSE location)
                 ELSE IF ~loading /\ ~user.signedIn /\ location \in ProtectedPaths
                      THEN "/login"
                 ELSE location
  /\ effects' = IF location' # location THEN "mount" ELSE "none"
  /\ UNCHANGED <<repositories, lastOp, ingestVars, messageVars, gatewayVars, chatVars,
                 supervisorVars, pollVars, storeVars, clientVars, dev, session, user,
                 loading, signIn, notices>>

\* The sign-in button of the Login page (shown when loading is false and no
\* user is held) calls handleSignIn: in development mode the mock user is
\* set and the page goes to /; else the popup opens.  (auth and
\* googleProvider are set whenever the production page has loaded:
\* firebase.ts throws at import otherwise.)
HandleSignIn ==
  /\ signIn.at = "idle"
  /\ location = "/login" /\ ~loading /\ ~user.signedIn
  /\ IF dev
     THEN /\ user' = DevUser
          /\ location' = "/"
          /\ effects' = "state"
          /\ UNCHANGED signIn
     ELSE /\ signIn' = [at |-> "popup", account |-> NoUser]
          /\ UNCHANGED <<user, location, effects>>
  /\ UNCHANGED <<repositories, lastOp, ingestVars, messageVars, gatewayVars, chatVars,
                 supervisorVars, pollVars, storeVars, clientVars, dev, session, loading,
                 notices>>

\* signInWithPopup resolves: the identity provider holds the account as its
\* current user and tells its listeners.
PopupResolves(account) ==
  /\ signIn.at = "popup"
  /\ Len(notices) < MaxNotices
  /\ session' = account
  /\ notices' = Append(notices, account)
  /\ signIn' = [at |-> "signed in", account |-> account]
  /\ UNCHANGED <<repositories, lastOp, ingestVars, messageVars, gatewayVars, chatVars,
                 supervisorVars, pollVars, storeVars, clientVars, dev, user, loading,
                 location, effects>>

\* signInWithPopup rejects (the popup was closed or blocked): catch, toast.
PopupRejects ==
  /\ signIn.at = "popup"
  /\ signIn' = Idle
  /\ UNCHANGED <<repositories, lastOp, ingestVars, messageVars, gatewayVars, chatVars,
                 supervisorVars, pollVars, storeVars, clientVars, dev, session, user,
                 loading, location, notices, effects>>

\* handleSignIn after the popup: an account whose email does not end with
\* @agile6.com is signed out again (the call is awaited); any other is
\* welcomed and the page goes to /.
CheckEmail ==
  /\ signIn.at = "signed in"
  /\ IF ~endsWith(signIn.account.email, Agile6Suffix)
     THEN /\ signIn' = [signIn EXCEPT !.at = "signing out"]
          /\ UNCHANGED <<location, effects>>
     ELSE /\ signIn' = Idle
          /\ location' = "/"
          /\ effects' = Navigated(effects, location, "/")
  /\ UNCHANGED <<repositories, lastOp, ingestVars, messageVars, gatewayVars, chatVars,
                 supervisorVars, pollVars, storeVars, clientVars, dev, session, user,
                 loading, notices>>

\* firebaseSignOut(auth) awaited by handleSignIn resolves: the identity
\* provider holds no user and tells its listeners; toast; return.
SignOutResolves ==
  /\ signIn.at = "signing out"
  /\ Len(notices) < MaxNotices
  /\ session' = NoUser
  /\ notices' = Append(notices, NoUser)
  /\ signIn' = Idle
  /\ UNCHANGED <<repositories, lastOp, ingestVars, messageVars, gatewayVars, chatVars,
                 supervisorVars, pollVars, storeVars, clientVars, dev, user, loading,
                 location, effects>>

\* The sign-out button of the navbar (shown with a user) calls
\* handleSignOut: in development mode the mock user is cleared and the page
\* goes to /login; else firebaseSignOut(auth) is called and awaited.  (auth
\* is set whenever a user is held outside development mode.)
HandleSignOut ==
  /\ signIn.at = "idle"
  /\ ~loading /\ user.signedIn
  /\ IF dev
     THEN /\ user' = NoUser
          /\ location' = "/login"
          /\ effects' = "state"
          /\ UNCHANGED signIn
     ELSE /\ signIn' = [at |-> "leaving", account |-> NoUser]
          /\ UNCHANGED <<user, location, effects>>
  /\ UNCHANGED <<repositories, lastOp, ingestVars, messageVars, gatewayVars, chatVars,
                 supervisorVars, pollVars, storeVars, clientVars, dev, session, loading,
                 notices>>

\* firebaseSignOut(auth) called by handleSignOut does its work: the identity
\* provider holds no user and tells its listeners; the handler has not
\* resumed yet.
ProviderSignsOut ==
  /\ signIn.at = "leaving"
  /\ Len(notices) < MaxNotices
  /\ session' = NoUser
  /\ notices' = Append(notices, NoUser)
  /\ signIn' = [at |-> "left", account |-> NoUser]
  /\ UNCHANGED <<repositories, lastOp, ingestVars, messageVars, gatewayVars, chatVars,
                 supervisorVars, pollVars, storeVars, clientVars, dev, user, loading,
                 location, effects>>

\* handleSignOut resumes after the await: setLocation("/login"); toast.
SignOutContinues ==
  /\ signIn.at = "left"
  /\ signIn' = Idle
  /\ location' = "/login"
  /\ effects' = Navigated(effects, location, "/login")
  /\ UNCHANGED <<repositories, lastOp, ingestVars, messageVars, gatewayVars, chatVars,
                 supervisorVars, pollVars, storeVars, clientVars, dev, session, user,
                 loading, notices>>

\* An awaited firebaseSignOut(auth) rejects, in handleSignIn or in
\* handleSignOut: the catch block shows a toast and nothing else changes.
SignOutRejects ==
  /\ signIn.at \in {"signing out", "leaving"}
  /\ signIn' = Idle
  /\ UNCHANGED <<repositories, lastOp, ingestVars, messageVars, gatewayVars, chatVars,
                 supervisorVars, pollVars, storeVars, clientVars, dev, session, user,
                 loading, location, notices, effects>>

\* The sessions the identity provider restores when the page loads: none,
\* or an account of the organisation signed in earlier.
RestoredSessions == {NoUser, [signedIn |-> TRUE, email |-> <<"a", Agile6Suffix>>]}

\* AuthProvider after its first render and effect: in development mode the
\* mock user is set and loading is false; else the listener is subscribed
\* and the identity provider is about to tell it the restored session.
InitAuth ==
  /\ repositories = <<>>
  /\ lastOp = Op("init", 0, "none")
  /\ InitIngestion
  /\ fresh = [id \in RepoIds |-> FALSE]
  /\ InitMessageTable
  /\ config = "parseThenRoutes"
  /\ InitGatewayIdle
  /\ InitStoreUp
  /\ InitClientIdle
  /\ InitChatIdle
  /\ InitNotWatching
  /\ InitComputeRunning
  /\ dev \in BOOLEAN
  /\ session \in RestoredSessions
  /\ user = IF dev THEN DevUser ELSE NoUser
  /\ loading = ~dev
  /\ location \in {"/login", "/", "/chat"}
  /\ signIn = Idle
  /\ notices = IF dev THEN <<>> ELSE <<session>>
  /\ effects = IF dev THEN "state" ELSE "none"

NextAuth ==
  \/ OnAuthStateChanged
  \/ RunEffects
  \/ HandleSignIn
  \/ \E account \in Accounts : PopupResolves(account)
  \/ PopupRejects
  \/ CheckEmail
  \/ SignOutResolves
  \/ HandleSignOut
  \/ ProviderSignsOut
  \/ SignOutContinues
  \/ SignOutRejects

SpecAuth == InitAuth /\ [][NextAuth]_vars

\* ------------------------------------------------------------------------
\* SpecSupervisor: a gateway run from its start, in each wiring: the compute
\* process comes up, fails to start or exits while requests arrive
\* ------------------------------------------------------------------------
\* The delayed wiring calls listen inside its start-up timer; the others at
\* the end of the module.
ListensAtStart(cfg) == cfg # "delayed"

InitSupervisor ==
  /\ repositories = <<>>
  /\ lastOp = Op("init", 0, "none")
  /\ InitIngestion
  /\ fresh = [id \in RepoIds |-> FALSE]
  /\ InitMessageTable
  /\ config \in Configs
  /\ InitGatewayIdle
  /\ InitStoreUp
  /\ InitClientIdle
  /\ InitSignedOut
  /\ InitChatIdle
  /\ InitNotWatching
  /\ compute = "starting"
  /\ exitCode = NoExit
  /\ spawns = 1
  /\ exitLog = <<>>
  /\ listening = ListensAtStart(config)

NextSupervisor ==
  \/ ComputeReady
  \/ SpawnError
  \/ \E code \in ExitCodes : ComputeExit(code)
  \/ StartupTimer
  \/ \E req \in Requests : Receive(req)
  \/ LogRequest
  \/ ParseBody
  \/ Proxy
  \/ Routes
  \/ UpstreamResponds
  \/ UpstreamRefuses
  \/ UpstreamSilent
  \/ ProxyTimeout
  \/ Finish

SpecSupervisor == InitSupervisor /\ [][NextSupervisor]_vars

\* ------------------------------------------------------------------------
\* SpecRecovery: processing attempts on pending repositories while the
\* compute process may exit; every call and every attempt in flight is
\* carried on for as long as the compute service runs
\* ------------------------------------------------------------------------
InitRecovery ==
  /\ repositories = [id \in RepoIds |-> InsertedRow(PendingBody)]
  /\ lastOp = Op("init", 0, "none")
  /\ InitIngestion
  /\ fresh = [id \in RepoIds |-> TRUE]
  /\ InitMessageTable
  /\ config = "parseThenRoutes"
  /\ InitGatewayIdle
  /\ InitStoreUp
  /\ InitClientIdle
  /\ InitSignedOut
  /\ InitChatIdle
  /\ InitNotWatching
  /\ InitComputeRunning

NextRecovery ==
  \/ \E c \in Callers, id \in RepoIds : CallBeginProcessing(c, id)
  \/ \E c \in Callers : BeginProcessing(c)
  \/ \E id \in RepoIds, files \in FetchedFiles : CompleteProcessing(id, files)
  \/ \E id \in RepoIds, reason \in FailureReasons : FailProcessing(id, reason)
  \/ \E code \in ExitCodes : ComputeExit(code)

\* The attempt on id ends, one way or the other.
EndAttempt(id) ==
  \/ \E files \in FetchedFiles : CompleteProcessing(id, files)
  \/ \E reason \in FailureReasons : FailProcessing(id, reason)

FairRecovery ==
  /\ \A c \in Callers : WF_vars(BeginProcessing(c))
  /\ \A id \in RepoIds : WF_vars(EndAttempt(id))

SpecRecovery == InitRecovery /\ [][NextRecovery]_vars /\ FairRecovery

\* ------------------------------------------------------------------------
\* SpecPolling: a ProcessingStatus component watching repositories that are
\* being processed
\* ------------------------------------------------------------------------
InitPolling ==
  /\ repositories = [id \in RepoIds |-> InsertedRow(PendingBody)]
  /\ lastOp = Op("init", 0, "none")
  /\ InitIngestion
  /\ fresh = [id \in RepoIds |-> TRUE]
  /\ InitMessageTable
  /\ config = "parseThenRoutes"
  /\ InitGatewayIdle
  /\ InitStoreUp
  /\ InitClientIdle
  /\ InitSignedOut
  /\ InitChatIdle
  /\ InitComputeRunning
  /\ watcher \in Watchers
  /\ polled = NotFetched
  /\ timer = FALSE

\* The repository processor, one call at a time
Processor == 1

NextPolling ==
  \/ \E id \in RepoIds : CallBeginProcessing(Processor, id)
  \/ BeginProcessing(Processor)
  \/ \E id \in RepoIds, files \in FetchedFiles : CompleteProcessing(id, files)
  \/ \E id \in RepoIds, reason \in FailureReasons : FailProcessing(id, reason)
  \/ FetchRepositories
  \/ Refetch
  \/ InvalidateQueries

SpecPolling == InitPolling /\ [][NextPolling]_vars

\* ------------------------------------------------------------------------
\* Claims on the repository records
\* ------------------------------------------------------------------------
\* The callers whose beginProcessing(id) has returned since the row was
\* created or its last attempt ended.
Returned(id) == {c \in Callers : pc[c] = "done" /\ target[c] = id}

\* C1: on a repository created pending, the beginProcessing calls that have
\* returned without a terminal transition in between hold exactly one success,
\* every other one a ConflictError (two calls: one success, one ConflictError),
\* in every interleaving of the callers; and no repository ever has two active
\* processing attempts.
C1_OneSuccessOneConflict ==
  \A id \in RepoIds :
    /\ attempts[id] <= 1
    /\ (fresh[id] /\ Returned(id) # {}) =>
         /\ Cardinality({c \in Returned(id) : result[c] = "ok"}) = 1
         /\ \A c \in Returned(id) : result[c] \in {"ok", "ConflictError"}

\* Two calls on the same pending repository have returned: one success, one
\* ConflictError, one active attempt.
C1_Witness ==
  \E id \in RepoIds : \E c, d \in Callers :
    /\ fresh[id] /\ c # d /\ {c, d} \subseteq Returned(id)
    /\ result[c] = "ok" /\ result[d] = "ConflictError"
    /\ attempts[id] = 1

\* C2: every repository with vectorized = true has status = completed and a
\* non-empty embeddings collection.
C2_VectorizedImpliesCompleted ==
  \A id \in DOMAIN repositories :
    repositories[id].vectorized =>
      /\ repositories[id].status = "completed"
      /\ repositories[id].embeddings # <<>>

\* C3: every repository with status = error has a non-null error_message and
\* vectorized = false.
C3_ErrorImpliesMessage ==
  \A id \in DOMAIN repositories :
    repositories[id].status = "error" =>
      /\ repositories[id].errorMessage # Null
      /\ ~repositories[id].vectorized

\* C9: beginEmbedding / completeEmbedding on a repository that is vectorized
\* already is a no-op success: the step returns success and leaves the row
\* (embeddings, status, vectorized) as it was.
C9_ReEmbeddingIsNoOp ==
  [][\A id \in DOMAIN repositories :
       (/\ lastOp'.op \in {"beginEmbedding", "completeEmbedding"}
        /\ lastOp'.id = id
        /\ repositories[id].vectorized)
       => (/\ lastOp'.result = "noop"
           /\ repositories'[id] = repositories[id])]_vars

\* completeEmbedding has returned its no-op success on a repository that holds
\* embeddings.
C9_Witness ==
  /\ lastOp.op = "completeEmbedding"
  /\ lastOp.result = "noop"
  /\ repositories[lastOp.id].vectorized
  /\ repositories[lastOp.id].embeddings # <<>>

\* The status changes of the data model
StatusChanges ==
  {<<"pending", "processing">>, <<"processing", "completed">>, <<"processing", "error">>}

\* C11: a repository's status is always one of pending, processing,
\* completed, error, and no operation changes it other than along pending ->
\* processing, processing -> completed, processing -> error.
C11_StatusStateMachine ==
  [][\A id \in DOMAIN repositories' :
       /\ repositories'[id].status \in Statuses
       /\ id \in DOMAIN repositories =>
            \/ repositories'[id].status = repositories[id].status
            \/ <<repositories[id].status, repositories'[id].status>> \in StatusChanges]_vars

\* A repository whose files have been ingested: the row holds file content
FilesIngested(row) == row.files # <<>>

\* C21: once a repository's files have been ingested, no operation changes
\* that record's files; processing the same url again creates a new record
\* with a new id and leaves every existing record's files as they were.
C21_FilesImmutable ==
  [][/\ \A id \in DOMAIN repositories :
          FilesIngested(repositories[id]) =>
            /\ id \in DOMAIN repositories'
            /\ repositories'[id].files = repositories[id].files
     /\ (lastOp'.op = "POST /api/repositories" /\ lastOp'.result = "201") =>
          /\ lastOp'.id \notin DOMAIN repositories
          /\ lastOp'.id \in DOMAIN repositories']_vars

\* C22: GET /repositories/{id} answers with the stored repository or 404
\* when none exists; POST /repositories and POST /repositories/{id}/messages
\* answer 201 for a valid body and 400 for a malformed one; a storage
\* failure is answered with 500, never with 400 or 404.
C22_CrudStatuses ==
  [][/\ \A id \in ParamIds :
          GetRepository(id) =>
            lastOp'.result = (IF db = "down" THEN "500"
                              ELSE IF HasRepository(repositories, id) THEN "200" ELSE "404")
     /\ \A body \in StorageBodies :
          PostRepositories(body) =>
            \E v \in Builds(drizzleZod) :
              lastOp'.result = (IF ~insertRepositorySchema(body, v) THEN "400"
                                ELSE IF db = "down" THEN "500" ELSE "201")
     /\ \A id \in ParamIds, body \in MessageBodies :
          (PostMessage(id, body) /\ (db = "down" \/ HasRepository(repositories, id))) =>
            \E v \in Builds(drizzleZod) :
              lastOp'.result = (IF ~insertMessageSchema(WithRepositoryId(body, id), v)
                                THEN "400"
                                ELSE IF db = "down" THEN "500" ELSE "201")]_vars

\* A url that is a well-formed repository reference
IsRepositoryReference(url) == url = WellFormedUrl

\* C15: creating a repository always inserts it with status pending, and a
\* request whose url is no well-formed repository reference gets 400 and
\* inserts nothing.
C15_CreateInsertsPending ==
  [][lastOp'.op = "POST /api/repositories" =>
       IF lastOp'.result = "201"
       THEN /\ repositories'[lastOp'.id].status = "pending"
            /\ IsRepositoryReference(repositories'[lastOp'.id].url)
       ELSE repositories' = repositories]_vars

\* C12: no repository stays in processing forever: every repository that
\* enters processing reaches completed or error, also when the compute
\* process exits with the attempt in flight.
C12_ProcessingEnds ==
  \A id \in RepoIds :
    (repositories[id].status = "processing")
      ~> (repositories[id].status \in {"completed", "error"})

\* The Generate Embeddings button is shown for a repository:
\*   repo.status === 'completed' && !repo.vectorized
ShowsEmbedButton(row) == row.status = "completed" /\ ~row.vectorized

\* C16: beginEmbedding and completeEmbedding take effect only on a
\* repository that is completed and not vectorized: there completeEmbedding
\* sets vectorized and stores the embedding collection; on a repository in
\* pending, processing or error the call changes nothing.
C16_EmbeddingOnlyWhenCompleted ==
  [][lastOp'.op \in {"beginEmbedding", "completeEmbedding"} =>
       LET id == lastOp'.id IN
       /\ \A j \in DOMAIN repositories : j # id => repositories'[j] = repositories[j]
       /\ lastOp'.op = "beginEmbedding" => repositories' = repositories
       /\ IF ShowsEmbedButton(repositories[id])
          THEN /\ lastOp'.result = "ok"
               /\ lastOp'.op = "completeEmbedding" =>
                    /\ repositories'[id].vectorized
                    /\ repositories'[id].embeddings \in Embeddings
                    /\ repositories'[id].status = "completed"
          ELSE /\ repositories' = repositories
               /\ lastOp'.result # "ok"]_vars

\* repository 1 was embedded from completed, and completeEmbedding on
\* repository 2, which is not completed, was rejected and left it as it was
C16_Witness ==
  /\ Len(repositories) = 2
  /\ repositories[1].status = "completed"
  /\ repositories[1].vectorized
  /\ repositories[1].embeddings \in Embeddings
  /\ lastOp = Op("completeEmbedding", 2, "Rejected")
  /\ repositories[2].status \in {"pending", "processing", "error"}
  /\ ~repositories[2].vectorized
  /\ repositories[2].embeddings = <<>>

\* C17: the processing guard is per repository: whatever goes on with other
\* repositories, beginProcessing, completeProcessing and failProcessing on a
\* repository whose own token is free can go ahead, and beginProcessing is
\* refused with ConflictError only when that repository itself is in
\* processing.
C17_GuardPerRepository ==
  /\ \A b \in DOMAIN repositories :
       token[b] = 0 =>
         /\ \A c \in Callers : pc[c] = "idle" => ENABLED CallBeginProcessing(c, b)
         /\ \A files \in FetchedFiles : ENABLED CompleteProcessing(b, files)
         /\ \A reason \in FailureReasons : ENABLED FailProcessing(b, reason)
  /\ (lastOp.op = "beginProcessing" /\ lastOp.result = "ConflictError") =>
       repositories[lastOp.id].status = "processing"
  /\ (lastOp.op \in {"completeProcessing", "failProcessing"} /\ lastOp.result = "Rejected") =>
       repositories[lastOp.id].status # "processing"

\* repository 1 is in processing, and beginProcessing on repository 2 has
\* just succeeded
C17_Witness ==
  /\ Len(repositories) = 2
  /\ repositories[1].status = "processing"
  /\ lastOp = Op("beginProcessing", 2, "ok")
  /\ repositories[2].status = "processing"

\* ------------------------------------------------------------------------
\* Claims on the messages
\* ------------------------------------------------------------------------
\* C10: the list GET /repositories/{id}/messages (getMessages) returns holds
\* exactly the messages of that repository, each once, in non-decreasing
\* timestamp order, whatever the order they were inserted in.
C10_MessagesInTimestampOrder ==
  (lastOp.op = "GET messages" /\ lastOp.result = "200") =>
    /\ \A i, j \in DOMAIN fetched : i < j => fetched[i].timestamp <= fetched[j].timestamp
    /\ {fetched[i] : i \in DOMAIN fetched} = RowsOf(messages, lastOp.id)
    /\ Len(fetched) = Cardinality(RowsOf(messages, lastOp.id))

\* A list was returned for a repository whose messages were inserted out of
\* timestamp order, while another repository has messages too.
C10_Witness ==
  /\ lastOp.op = "GET messages"
  /\ Len(fetched) >= 2
  /\ \E i, j \in DOMAIN messages :
       /\ i < j
       /\ messages[i].repositoryId = lastOp.id
       /\ messages[j].repositoryId = lastOp.id
       /\ messages[i].timestamp > messages[j].timestamp
  /\ \E i \in DOMAIN messages : messages[i].repositoryId # lastOp.id

\* C20: messages are append-only: every message stored stays stored, with
\* the same id, repository, role, content and timestamp, through every
\* operation of the API and of the storage interface.
C20_MessagesAppendOnly ==
  [][\A i \in DOMAIN messages :
       /\ i \in DOMAIN messages'
       /\ messages'[i] = messages[i]]_vars

\* a message was stored through the storage interface after two others, and
\* the first one is there as it was stored
C20_Witness ==
  /\ Len(messages) >= 3
  /\ lastOp.op = "createMessage"
  /\ messages[1].id = 1
  /\ \A i, j \in DOMAIN messages : i # j => messages[i].id # messages[j].id

\* ------------------------------------------------------------------------
\* Claims on the gateway
\* ------------------------------------------------------------------------
Forwarded == outgoing # NoOutgoing

\* C4: a POST/PUT/PATCH request with a JSON body the gateway has parsed
\* reaches the compute service with the same method, the path with the
\* matched prefix rewritten, a body byte-identical to the one the client
\* sent, and a Content-Length that is the byte length of that body.
C4_ProxiedBodyIntact ==
  (Forwarded /\ request.method \in BodyMethods /\ drained /\ reqBody.defined) =>
    /\ outgoing.method = request.method
    /\ outgoing.path = (IF outgoing.by = "proxyGithub"
                        THEN <<"github">> \o Tail(Tail(request.path))
                        ELSE Tail(request.path))
    /\ outgoing.body = request.body
    /\ outgoing.contentLength = ByteLength(outgoing.body)

\* C5: in every wiring, no request is forwarded after body parsing drained
\* its stream unless the parsed body was written back onto the outgoing
\* request.
C5_NoForwardAfterDrain ==
  (Forwarded /\ drained) =>
    /\ WritesBodyBack(config, outgoing.by, request, reqBody)
    /\ JSONParse(outgoing.body) = reqBody.value

\* C6: when a forwarded request meets a connection failure or a compute
\* service that does not answer, the client gets a 502 or 504 with a JSON
\* error body, and is never left without a response once the time is up.
C6_UpstreamFailureAnswered ==
  /\ (phase \in {"refused", "silent"} /\ response # NoResponse) =>
       /\ response.status \in {502, 504}
       /\ response.type = "json"
  /\ (phase = "silent" /\ response = NoResponse) =>
       HasProxyTimeout(config, outgoing.by)

\* C14: every error response the gateway sends, from a handler or made up by
\* the proxy when the compute service fails, is a JSON object of the shape
\* {message, details?}.
C14_ErrorShape ==
  response.status >= 400 =>
    /\ response.type = "json"
    /\ "message" \in response.keys
    /\ response.keys \subseteq {"message", "details"}

\* ------------------------------------------------------------------------
\* Claims on the chat turn
\* ------------------------------------------------------------------------
Handled == chat.state = "handled"

NamesUnvectorized ==
  \E i \in DOMAIN chat.ids : ~repositories[chat.ids[i]].vectorized

\* C7: a chat turn that names at least one repository with vectorized =
\* false is rejected with ValidationError as a whole, and nothing of any of
\* the repositories it names is retrieved.
C7_UnvectorizedRejectsTurn ==
  (Handled /\ NamesUnvectorized) =>
    /\ chat.status = "ValidationError"
    /\ chat.context = <<>>
    /\ chat.retrieved = {}

\* a turn naming a vectorized repository first and an unvectorized one after
\* it was rejected
C7_Witness ==
  /\ Handled
  /\ Len(chat.ids) > 1
  /\ repositories[chat.ids[1]].vectorized
  /\ ~repositories[chat.ids[2]].vectorized
  /\ chat.status = "ValidationError"

\* Where a chunk stands in the order of the turn: the place of its
\* repository in the ids, then its place in the repository.
Place(c) == CHOOSE i \in DOMAIN chat.ids : chat.ids[i] = c.repo

Before(c, d) ==
  \/ Place(c) < Place(d)
  \/ Place(c) = Place(d) /\ c.index < d.index

NamedChunks ==
  UNION {{[repo |-> chat.ids[i], index |-> k,
           chunk |-> repositories[chat.ids[i]].embeddings[k]] :
            k \in DOMAIN repositories[chat.ids[i]].embeddings} :
         i \in DOMAIN chat.ids}

Included == {chat.context[p] : p \in DOMAIN chat.context}

RECURSIVE TotalSize(_)
TotalSize(chunks) ==
  IF chunks = <<>> THEN 0 ELSE ChunkSize(Head(chunks).chunk) + TotalSize(Tail(chunks))

\* C8: for vectorized repositories the assembler succeeds, and its result is
\* the chunks of the repositories in the order of the ids given and, within
\* a repository, in stored order, cut off at the size bound; a truncation is
\* logged exactly when chunks were left out.
C8_OrderedBoundedContext ==
  (Handled /\ ~NamesUnvectorized) =>
    /\ chat.status = "ok"
    /\ Included \subseteq NamedChunks
    /\ \A p, q \in DOMAIN chat.context : p < q => Before(chat.context[p], chat.context[q])
    /\ \A c \in Included : \A d \in NamedChunks : Before(d, c) => d \in Included
    /\ TotalSize(chat.context) <= maxContext
    /\ \A d \in NamedChunks \ Included :
         (\A e \in NamedChunks \ Included : e = d \/ Before(d, e)) =>
            TotalSize(chat.context) + ChunkSize(d.chunk) > maxContext
    /\ chat.truncated <=> (NamedChunks \ Included # {})

\* ids [2, 1]: the chunks of repository 2 come first, and the chunks of
\* repository 1 were cut off with a truncation logged
C8_Witness ==
  /\ Handled
  /\ chat.ids = <<2, 1>>
  /\ chat.status = "ok"
  /\ chat.truncated
  /\ Len(chat.context) > 1
  /\ chat.context[1].repo = 2
  /\ chat.context[Len(chat.context)].repo = 1

\* ------------------------------------------------------------------------
\* Claims on the supervisor
\* ------------------------------------------------------------------------
\* C18: when the compute process exits with a non-zero code after it
\* started, the supervisor logs the code and does not launch the process
\* again: one spawn per gateway run, and the gateway goes on serving.
C18_ExitLoggedNoRestart ==
  [][/\ spawns' = spawns
     /\ spawns = 1
     /\ exitCode' # exitCode =>
          /\ exitCode' # 0 => exitLog' = Append(exitLog, exitCode')
          /\ exitCode' = 0 => exitLog' = exitLog
          /\ listening' = listening
     /\ compute = "exited" => (compute' = "exited" /\ exitLog' = exitLog)
     /\ listening => listening']_vars

\* the process ran, exited with code 1, the code is in the log, and the
\* gateway answered a request after that
C18_Witness ==
  /\ compute = "exited"
  /\ exitCode = 1
  /\ exitLog = <<1>>
  /\ spawns = 1
  /\ phase = "refused"
  /\ response.status >= 500

\* C19: the gateway accepts requests from its start, whatever the compute
\* service does: a request that comes while the service is not reachable
\* gets an error response, and one that comes once it is reachable can be
\* answered by the service.
C19_StartupTolerant ==
  /\ response # ConnectionRefused
  /\ phase = "refused" => response.status \in 500..599
  /\ (phase = "sent" /\ ComputeRunning) => BodyComplete(outgoing)

\* ------------------------------------------------------------------------
\* Claims on the client
\* ------------------------------------------------------------------------
\* C13: a client watching repository status polls exactly while the list it
\* fetched last holds a repository in processing, and stops once a fetched
\* list holds none.
C13_PollsWhileProcessing ==
  polled.fetched =>
    (timer <=> \E i \in DOMAIN polled.list : polled.list[i] = "processing")


\* ------------------------------------------------------------------------
\* The conversation of the chat page
\* ------------------------------------------------------------------------
Last(msgs) == msgs[Len(msgs)]

\* C23: every chat turn the compute service answers has its response stored
\* as a Message, and the turn itself is never stored: the step that brings
\* the response adds exactly one row, an assistant row with the content the
\* page shows, under a repository the turn names; no other step of the
\* conversation adds or changes a row.
C23_ResponsePersisted ==
  [][/\ ChatAnswered =>
          /\ Len(messages') = Len(messages) + 1
          /\ SubSeq(messages', 1, Len(messages)) = messages
          /\ Last(messages').role = "assistant"
          /\ Last(messages').content = Last(ui'.messages).content
          /\ \E i \in DOMAIN Head(inflight).repository_ids :
               Head(inflight).repository_ids[i] = Last(messages').repositoryId
     /\ ~ChatAnswered => messages' = messages]_vars

\* An answered turn: the page shows the response and the table holds it.
C23_Witness ==
  /\ lastOp.op = "POST /chat/message" /\ lastOp.result = "ok"
  /\ ui.messages # <<>> /\ Last(ui.messages).content = AnswerText
  /\ messages # <<>> /\ Last(messages).content = AnswerText

\* C24: when a chat request fails (network error, gateway error status, any
\* non-OK response), the page appends exactly one assistant message saying
\* the request could not be completed, keeps every earlier message and is
\* idle again with isLoading cleared.
C24_FailureBecomesMessage ==
  [][\A failure \in ChatFailures :
       ChatFailed(failure) =>
         /\ Len(ui'.messages) = Len(ui.messages) + 1
         /\ SubSeq(ui'.messages, 1, Len(ui.messages)) = ui.messages
         /\ Last(ui'.messages).role = "assistant"
         /\ Last(ui'.messages).content = ErrorText
         /\ ~ui'.isLoading
         /\ Len(inflight') = Len(inflight) - 1]_vars

\* A failed request after an earlier turn: the error message stands last,
\* the earlier messages before it, and the page is idle.
C24_Witness ==
  /\ lastOp.op = "POST /chat/message" /\ lastOp.result \in ChatFailures
  /\ Len(ui.messages) > 2
  /\ Last(ui.messages).content = ErrorText
  /\ ~ui.isLoading /\ inflight = <<>>

\* C26: at most one /chat/message request is in flight; a submit while the
\* page waits for a response, or with blank input, sends no request and
\* appends no message, so user and assistant messages alternate.
C26_OneTurnAtATime ==
  [][/\ Len(inflight') <= 1
     /\ ui'.isLoading <=> inflight' # <<>>
     /\ \A i \in DOMAIN ui'.messages :
          ui'.messages[i].role = (IF i % 2 = 1 THEN "user" ELSE "assistant")
     /\ (SubmitMessage /\ (ui.isLoading \/ trim(ui.input) = <<>>)) =>
          /\ inflight' = inflight
          /\ ui' = ui]_vars

\* A submit with text in the input while the page waits was ignored.
C26_Witness ==
  /\ lastOp.op = "handleSubmit" /\ lastOp.result = "ignored"
  /\ ui.isLoading /\ trim(ui.input) # <<>>
  /\ Len(inflight) = 1

\* C27: the chat_history of a request is the (role, content) pairs of all
\* messages of the conversation before the current user message, in order:
\* it holds neither the current user message nor leaves out an earlier one.
C27_HistoryIsEarlierMessages ==
  [][(SubmitMessage /\ canSubmit(ui)) =>
       LET sent == Last(inflight') IN
       /\ Len(sent.chat_history) = Len(ui.messages)
       /\ \A i \in DOMAIN ui.messages :
            sent.chat_history[i] = [role |-> ui.messages[i].role,
                                    content |-> ui.messages[i].content]
       /\ sent.message = Last(ui'.messages).content
       /\ Len(ui'.messages) = Len(sent.chat_history) + 1]_vars

\* A request of the second turn is in flight with the first turn as its
\* history.
C27_Witness ==
  /\ inflight # <<>>
  /\ Len(Head(inflight).chat_history) = 2
  /\ Head(inflight).chat_history[1].role = "user"
  /\ Head(inflight).chat_history[2].role = "assistant"
  /\ Len(ui.messages) = 3

\* ------------------------------------------------------------------------
\* The gateway's log
\* ------------------------------------------------------------------------
\* The request in the gateway is a chat request the proxy has forwarded.
ForwardedChat ==
  /\ phase # "none"
  /\ request.path = <<"api", "chat", "message">>

\* C25: the gateway never writes the request body or the response body of a
\* forwarded chat request to its log: what it logs of such a request is
\* method, path, status and latency (and the message of a proxy error).
C25_NoBodiesInLog ==
  ForwardedChat =>
    /\ "request body" \notin logged
    /\ "response body" \notin logged
    /\ logged \subseteq {"method", "path", "status", "latency", "error message"}

\* ------------------------------------------------------------------------
\* Who answers a request under /api
\* ------------------------------------------------------------------------
\* The wirings that mount a proxy on /api ahead of registerRoutes
ProxyOnApi == {"proxyFirst", "reserialize", "delayed"}

\* One of the gateway's own handlers has answered the request.
AnsweredByHandlers == phase = "none" /\ response \in RouteResponses

\* C28: when the proxy is mounted on /api ahead of the CRUD routes, every
\* request under /api is forwarded to the compute service and none reaches
\* the gateway's own handlers; the handlers answer only in the wiring whose
\* proxy is limited to /api/github.
C28_ProxyShadowsRoutes ==
  /\ AnsweredByHandlers => config = "parseThenRoutes"
  /\ (config \in ProxyOnApi /\ request # NoRequest /\ IsPrefix(<<"api">>, request.path)) =>
       /\ step > 0 => Current \notin {"proxyGithub", "routes"}
       /\ (step = 0 /\ response # ConnectionRefused) =>
            /\ phase # "none"
            /\ outgoing.by = "proxyApi"

\* GET /api/repositories, a path of the gateway's own handlers, went to the
\* compute service through the proxy on /api and was answered from there.
C28_Witness ==
  /\ config \in ProxyOnApi
  /\ request.path = <<"api", "repositories">>
  /\ outgoing.by = "proxyApi"
  /\ phase = "responded"
  /\ response.type = "upstream"

\* ------------------------------------------------------------------------
\* The repository a message belongs to
\* ------------------------------------------------------------------------
\* C29: every stored message refers to an existing repository: a POST
\* /repositories/{id}/messages whose id is not a number or names no stored
\* repository creates no message and is answered with an error status.
C29_MessagesReferToRepositories ==
  [][/\ \A i \in DOMAIN messages' :
          HasRepository(repositories', messages'[i].repositoryId)
     /\ (/\ lastOp'.op = "POST messages"
         /\ lastOp'.id = NaN \/ ~HasRepository(repositories, lastOp'.id)) =>
          \A body \in MessageBodies \cup OwnIdBodies :
            PostMessage(lastOp'.id, body) =>
              /\ messages' = messages
              /\ lastOp'.result = "400"]_vars

\* With a repository and a message of it stored, a well-formed message
\* posted under NaN was answered 400.
C29_Witness ==
  /\ lastOp = Op("POST messages", NaN, "400")
  /\ repositories # <<>>
  /\ messages # <<>>
  /\ \A i \in DOMAIN messages : messages[i].repositoryId \in DOMAIN repositories

\* ------------------------------------------------------------------------
\* Who gets to see the protected pages
\* ------------------------------------------------------------------------
\* C30: outside development mode, no account whose email does not end with
\* @agile6.com is ever held as the authenticated user while a protected
\* route component is rendered: a sign-in with such an account ends signed
\* out without a redirect to the home page.
C30_OnlyAgile6SeesProtected ==
  ~dev => ~(/\ user.signedIn
            /\ ~endsWith(user.email, Agile6Suffix)
            /\ ProtectedRendered)


====
